---- MODULE Spec2Model ----
(***************************************************************************)
(* EventBroadcaster (apps/server/src/ws/broadcaster.ts): the client        *)
(* registry, the broadcast queue and the timer driven delivery sweep.      *)
(*                                                                         *)
(* Every public method of the class is one action.  JavaScript runs each  *)
(* method to completion on a single thread, so an action is the whole     *)
(* method, including the private helpers it calls (addToQueue,            *)
(* generateId, sendToClient, stopQueueProcessing).                        *)
(***************************************************************************)
EXTENDS Integers, Sequences, FiniteSets, TLC

\* ---------------------------------------------------------------- bounds
maxQueueSize == 2    \* constructor option maxQueueSize
maxRetries == 2      \* constructor option maxRetries
MaxNow == 2          \* the clock readings run from 0 to MaxNow

ClientIds == {"a", "b"}
\* three clients, for the sweeps that count what each is handed
TrioIds == {"a", "b", "c"}
Tags == {"vip"}
Types == {"alert", "tx"}
\* "circular" stands for a payload JSON.stringify throws on
Payloads == {"plain", "circular"}
\* the strings `${Date.now()}-${Math.random().toString(36).substr(2, 9)}`
\* (one more than the queue can hold: a full queue can still meet a new id)
BroadcastIds == 1..(maxQueueSize + 1)
\* the ids generateId() produces where the queue never meets a spare one
DeliveryIds == 1..maxQueueSize
\* the payloads handed to the broadcast methods
QueuedPayloads == {"plain"}

VARIABLES
  clients,                  \* Map id -> { ws, metadata }
  messageQueue,             \* Map broadcastId -> QueuedBroadcast, in insertion order
  queueProcessingInterval,  \* TRUE while the setInterval timer is armed
  timers,                   \* the setInterval timers set and not yet cleared
  now,                      \* Date.now()
  received,                 \* per client id, the messages its socket was handed
                            \* by the sweeps that are asked to count them
  emitted,                  \* events emitted by the last operation, in order
  ret,                      \* the last operation: [op, value returned], and the type
                            \* argument of a broadcast call, whether the id of a
                            \* registerClient call was known, the sockets closeAll
                            \* called close() on
  tally                     \* per broadcast send results and counters of the last sweep

vars == <<clients, messageQueue, queueProcessingInterval, timers, now,
          received, emitted, ret, tally>>

\* ------------------------------------------------------------- registry

\* clients.has(id)
Has(cl, id) == id \in DOMAIN cl

\* clients.set(id, entry)
MapSet(cl, id, entry) ==
  [c \in (DOMAIN cl) \cup {id} |-> IF c = id THEN entry ELSE cl[c]]

\* clients.delete(id)
MapDelete(cl, id) == [c \in (DOMAIN cl) \ {id} |-> cl[c]]

\* getClientIds()
getClientIds(cl) == DOMAIN cl

\* getClientCount()
getClientCount(cl) == Cardinality(DOMAIN cl)

\* getClient(id): the ws, or null (the empty set here)
getClient(cl, id) == IF Has(cl, id) THEN {cl[id].ws} ELSE {}

\* getClientsByTag(tag)
getClientsByTag(cl, tag) == {c \in DOMAIN cl : tag \in cl[c].tags}

\* History kept beside each queued broadcast: the ids registered (again)
\* since it was enqueued.  The code has no such field and never reads it.
NoteJoined(q, id) ==
  [i \in DOMAIN q |-> [q[i] EXCEPT !.joinedSince = @ \cup {id}]]

\* registerClient keeping the metadata of an id it already knows
Register_KeepMetadata(id, readyState, tags) ==
  /\ clients' = MapSet(clients, id,
                  IF Has(clients, id)
                    THEN [clients[id] EXCEPT !.ws = [readyState |-> readyState]]
                    ELSE [ws |-> [readyState |-> readyState],
                          joinedAt |-> now,
                          lastMessageAt |-> {},
                          tags |-> tags])
  /\ emitted' = <<[name |-> "client:connected", clientId |-> id]>>
  /\ ret' = [op |-> "registerClient", value |-> {}, known |-> Has(clients, id)]
  /\ tally' = <<>>
  /\ UNCHANGED <<queueProcessingInterval, timers, now, received>>

\* registerClient(id, ws, tags): a fresh metadata object replaces any old one
Register(id, readyState, tags) ==
  /\ clients' = MapSet(clients, id,
                  [ws |-> [readyState |-> readyState],
                   joinedAt |-> now,
                   lastMessageAt |-> {},
                   tags |-> tags])
  /\ emitted' = <<[name |-> "client:connected", clientId |-> id]>>
  /\ ret' = [op |-> "registerClient", value |-> {}, known |-> Has(clients, id)]
  /\ tally' = <<>>
  /\ UNCHANGED <<queueProcessingInterval, timers, now, received>>

registerClient(id, readyState, tags) ==
  /\ Register(id, readyState, tags)
  /\ UNCHANGED messageQueue

\* registerClient with the history of NoteJoined recorded
registerClientNoted(id, readyState, tags) ==
  /\ Register(id, readyState, tags)
  /\ messageQueue' = NoteJoined(messageQueue, id)

\* unregisterClient that also takes the id out of every queued target set
unregisterClient_PruneTargets(id) ==
  /\ IF ~Has(clients, id)
       THEN /\ ret' = [op |-> "unregisterClient", value |-> FALSE]
            /\ emitted' = <<>>
            /\ UNCHANGED <<clients, messageQueue>>
       ELSE /\ clients' = MapDelete(clients, id)
            /\ messageQueue' =
                 [i \in DOMAIN messageQueue |->
                    [messageQueue[i] EXCEPT !.targetClients = @ \ {id}]]
            /\ emitted' = <<[name |-> "client:disconnected", clientId |-> id]>>
            /\ ret' = [op |-> "unregisterClient", value |-> TRUE]
  /\ tally' = <<>>
  /\ UNCHANGED <<queueProcessingInterval, timers, now, received>>

\* unregisterClient reporting success for an id it does not know
unregisterClient_AlwaysTrue(id) ==
  /\ clients' = MapDelete(clients, id)
  /\ emitted' = <<[name |-> "client:disconnected", clientId |-> id]>>
  /\ ret' = [op |-> "unregisterClient", value |-> TRUE]
  /\ tally' = <<>>
  /\ UNCHANGED <<messageQueue, queueProcessingInterval, timers, now, received>>

\* unregisterClient(id)
unregisterClient(id) ==
  /\ IF ~Has(clients, id)
       THEN /\ ret' = [op |-> "unregisterClient", value |-> FALSE]
            /\ emitted' = <<>>
            /\ UNCHANGED clients
       ELSE /\ clients' = MapDelete(clients, id)
            /\ emitted' = <<[name |-> "client:disconnected", clientId |-> id]>>
            /\ ret' = [op |-> "unregisterClient", value |-> TRUE]
  /\ tally' = <<>>
  /\ UNCHANGED <<messageQueue, queueProcessingInterval, timers, now, received>>

\* addClientTag(clientId, tag)
addClientTag(clientId, tag) ==
  /\ IF ~Has(clients, clientId)
       THEN /\ ret' = [op |-> "addClientTag", value |-> FALSE]
            /\ UNCHANGED clients
       ELSE /\ clients' = [clients EXCEPT ![clientId].tags = @ \cup {tag}]
            /\ ret' = [op |-> "addClientTag", value |-> TRUE]
  /\ emitted' = <<>>
  /\ tally' = <<>>
  /\ UNCHANGED <<messageQueue, queueProcessingInterval, timers, now, received>>

\* removeClientTag(clientId, tag): Set.delete reports whether the tag was there
removeClientTag(clientId, tag) ==
  /\ IF ~Has(clients, clientId)
       THEN /\ ret' = [op |-> "removeClientTag", value |-> FALSE]
            /\ UNCHANGED clients
       ELSE /\ clients' = [clients EXCEPT ![clientId].tags = @ \ {tag}]
            /\ ret' = [op |-> "removeClientTag",
                       value |-> tag \in clients[clientId].tags]
  /\ emitted' = <<>>
  /\ tally' = <<>>
  /\ UNCHANGED <<messageQueue, queueProcessingInterval, timers, now, received>>

\* ---------------------------------------------------------------- queue

\* generateId(): the string is fixed by the clock and by Math.random(), both
\* outside the program's control; r is the string they produce this time
generateId(r) == r

\* position of the entry with key id in the queue map, 0 when absent
IndexOf(q, id) ==
  IF \E i \in DOMAIN q : q[i].id = id
    THEN CHOOSE i \in DOMAIN q : q[i].id = id
    ELSE 0

\* messageQueue.set(b.id, b): an existing key keeps its place in the map
QueueSet(q, b) ==
  IF IndexOf(q, b.id) = 0 THEN Append(q, b)
  ELSE [q EXCEPT ![IndexOf(q, b.id)] = b]

\* getQueueSize()
getQueueSize(q) == Len(q)

\* addToQueue with the capacity test off by one (> for >=)
addToQueue_OffByOne(q, broadcast) ==
  IF Len(q) > maxQueueSize
    THEN [ok |-> FALSE, queue |-> q, events |-> <<>>]
    ELSE [ok |-> TRUE,
          queue |-> QueueSet(q, broadcast),
          events |-> <<[name |-> "broadcast:queued",
                        broadcastId |-> broadcast.id,
                        type |-> broadcast.type,
                        targetCount |-> Cardinality(broadcast.targetClients)]>>]

\* addToQueue that makes room by evicting the oldest broadcast when full
addToQueue_Evict(q, broadcast) ==
  LET room == IF Len(q) >= maxQueueSize THEN Tail(q) ELSE q
  IN [ok |-> Len(q) < maxQueueSize,
      queue |-> QueueSet(room, broadcast),
      events |-> IF Len(q) < maxQueueSize
                   THEN <<[name |-> "broadcast:queued",
                           broadcastId |-> broadcast.id,
                           type |-> broadcast.type,
                           targetCount |-> Cardinality(broadcast.targetClients)]>>
                   ELSE <<>>]

\* addToQueue(broadcast): [ok, queue, events]
addToQueue(q, broadcast) ==
  IF Len(q) >= maxQueueSize
    THEN [ok |-> FALSE, queue |-> q, events |-> <<>>]
    ELSE [ok |-> TRUE,
          queue |-> QueueSet(q, broadcast),
          events |-> <<[name |-> "broadcast:queued",
                        broadcastId |-> broadcast.id,
                        type |-> broadcast.type,
                        targetCount |-> Cardinality(broadcast.targetClients)]>>]

\* The object literal built by broadcast and broadcastToClients (it sets no
\* timestamp); joinedSince is the history field of NoteJoined.
NewBroadcast(id, type, data, targetClients) ==
  [id |-> id, type |-> type, data |-> data,
   targetClients |-> targetClients,
   retryCount |-> 0, maxRetries |-> maxRetries,
   joinedSince |-> {}]

\* the same tail with the queue-full event left out
Enqueue_SilentReject(call, broadcastId, type, data, targetClients) ==
  LET queued == addToQueue(messageQueue,
                           NewBroadcast(broadcastId, type, data, targetClients))
  IN /\ messageQueue' = queued.queue
     /\ emitted' = queued.events
     /\ ret' = [op |-> call, type |-> type, value |-> broadcastId]
     /\ tally' = <<>>
     /\ UNCHANGED <<clients, queueProcessingInterval, timers, now, received>>

\* the tail shared by broadcast and broadcastToClients: addToQueue, the
\* queue-full event, return broadcastId
Enqueue(call, broadcastId, type, data, targetClients) ==
  LET queued == addToQueue(messageQueue,
                           NewBroadcast(broadcastId, type, data, targetClients))
  IN /\ messageQueue' = queued.queue
     /\ emitted' = IF queued.ok THEN queued.events
                   ELSE <<[name |-> "broadcast:queue-full",
                           broadcastId |-> broadcastId, type |-> type]>>
     /\ ret' = [op |-> call, type |-> type, value |-> broadcastId]
     /\ tally' = <<>>
     /\ UNCHANGED <<clients, queueProcessingInterval, timers, now, received>>

\* broadcast that, like broadcastToClients, queues nothing without targets
broadcast_NeedsTargets(r, type, data) ==
  IF getClientIds(clients) = {}
    THEN /\ emitted' = <<[name |-> "broadcast:no-targets",
                          broadcastId |-> generateId(r), type |-> type]>>
         /\ ret' = [op |-> "broadcast", type |-> type, value |-> generateId(r)]
         /\ tally' = <<>>
         /\ UNCHANGED <<clients, messageQueue, queueProcessingInterval,
                        timers, now, received>>
    ELSE Enqueue("broadcast", generateId(r), type, data, getClientIds(clients))

\* broadcast(type, data)
broadcast(r, type, data) ==
  Enqueue("broadcast", generateId(r), type, data, getClientIds(clients))

\* broadcastToClients that does not filter the list against the registry
ToClients_NoFilter(call, r, clientIds, type, data) ==
  LET broadcastId == generateId(r)
      targetClients == clientIds
  IN IF targetClients = {}
       THEN /\ emitted' = <<[name |-> "broadcast:no-targets",
                             broadcastId |-> broadcastId, type |-> type]>>
            /\ ret' = [op |-> call, type |-> type, value |-> broadcastId]
            /\ tally' = <<>>
            /\ UNCHANGED <<clients, messageQueue, queueProcessingInterval,
                           timers, now, received>>
       ELSE Enqueue(call, broadcastId, type, data, targetClients)

\* broadcastToClients(clientIds, type, data), called as `call`
ToClients(call, r, clientIds, type, data) ==
  LET broadcastId == generateId(r)
      targetClients == {id \in clientIds : Has(clients, id)}
  IN IF targetClients = {}
       THEN /\ emitted' = <<[name |-> "broadcast:no-targets",
                             broadcastId |-> broadcastId, type |-> type]>>
            /\ ret' = [op |-> call, type |-> type, value |-> broadcastId]
            /\ tally' = <<>>
            /\ UNCHANGED <<clients, messageQueue, queueProcessingInterval,
                           timers, now, received>>
       ELSE Enqueue(call, broadcastId, type, data, targetClients)

broadcastToClients(r, clientIds, type, data) ==
  ToClients("broadcastToClients", r, clientIds, type, data)

\* broadcastToTag aimed at every registered client, tagged or not
broadcastToTag_Everyone(r, tag, type, data) ==
  ToClients("broadcastToTag", r, getClientIds(clients), type, data)

\* broadcastToTag(tag, type, data)
broadcastToTag(r, tag, type, data) ==
  ToClients("broadcastToTag", r, getClientsByTag(clients, tag), type, data)

\* clearQueue()
clearQueue ==
  /\ messageQueue' = <<>>
  /\ emitted' = <<[name |-> "queue:cleared", clearedCount |-> Len(messageQueue)]>>
  /\ ret' = [op |-> "clearQueue", value |-> {}]
  /\ tally' = <<>>
  /\ UNCHANGED <<clients, queueProcessingInterval, timers, now, received>>

\* ------------------------------------------------------------- delivery

\* the order a Set is walked in (insertion order in the code, a fixed order here)
RECURSIVE SetToSeq(_)
SetToSeq(S) ==
  IF S = {} THEN <<>>
  ELSE LET x == CHOOSE x \in S : TRUE
       IN <<x>> \o SetToSeq(S \ {x})

\* sendToClient with lastMessageAt set before ws.send is called
SendToClient_StampFirst(cl, clientId, type, data, throws) ==
  IF ~Has(cl, clientId)
    THEN [success |-> FALSE, outcome |-> "unknown", clients |-> cl, events |-> <<>>]
  ELSE IF data = "circular"
    THEN [success |-> FALSE, outcome |-> "error", clients |-> cl,
          events |-> <<[name |-> "message:error", clientId |-> clientId, type |-> type]>>]
  ELSE IF cl[clientId].ws.readyState = "OPEN"
    THEN IF throws
      THEN [success |-> FALSE, outcome |-> "error",
            clients |-> [cl EXCEPT ![clientId].lastMessageAt = {now}],
            events |-> <<[name |-> "message:error", clientId |-> clientId, type |-> type]>>]
      ELSE [success |-> TRUE, outcome |-> "sent",
            clients |-> [cl EXCEPT ![clientId].lastMessageAt = {now}],
            events |-> <<[name |-> "message:sent", clientId |-> clientId, type |-> type]>>]
  ELSE [success |-> FALSE, outcome |-> "closed", clients |-> cl, events |-> <<>>]

\* sendToClient with a socket that is not open reported as a send error
SendToClient_ErrorOnClosed(cl, clientId, type, data, throws) ==
  IF ~Has(cl, clientId)
    THEN [success |-> FALSE, outcome |-> "unknown", clients |-> cl, events |-> <<>>]
  ELSE IF data = "circular" \/ cl[clientId].ws.readyState # "OPEN" \/ throws
    THEN [success |-> FALSE,
          outcome |-> IF data # "circular" /\ cl[clientId].ws.readyState # "OPEN"
                        THEN "closed" ELSE "error",
          clients |-> cl,
          events |-> <<[name |-> "message:error", clientId |-> clientId, type |-> type]>>]
  ELSE [success |-> TRUE, outcome |-> "sent",
        clients |-> [cl EXCEPT ![clientId].lastMessageAt = {now}],
        events |-> <<[name |-> "message:sent", clientId |-> clientId, type |-> type]>>]

\* sendToClient(clientId, type, data) on registry cl; throws says whether
\* ws.send raises this time.  [success, outcome, clients, events]
SendToClient(cl, clientId, type, data, throws) ==
  IF ~Has(cl, clientId)
    THEN [success |-> FALSE, outcome |-> "unknown", clients |-> cl, events |-> <<>>]
  ELSE IF data = "circular"
    THEN [success |-> FALSE, outcome |-> "error", clients |-> cl,
          events |-> <<[name |-> "message:error", clientId |-> clientId, type |-> type]>>]
  ELSE IF cl[clientId].ws.readyState = "OPEN"
    THEN IF throws
      THEN [success |-> FALSE, outcome |-> "error", clients |-> cl,
            events |-> <<[name |-> "message:error", clientId |-> clientId, type |-> type]>>]
      ELSE [success |-> TRUE, outcome |-> "sent",
            clients |-> [cl EXCEPT ![clientId].lastMessageAt = {now}],
            events |-> <<[name |-> "message:sent", clientId |-> clientId, type |-> type]>>]
  ELSE [success |-> FALSE, outcome |-> "closed", clients |-> cl, events |-> <<>>]

\* sendToClient refusing to send while the queue is full
sendToClient_Backpressure(clientId, type, data, throws) ==
  LET r == SendToClient(clients, clientId, type, data, throws)
      full == Len(messageQueue) >= maxQueueSize
  IN /\ clients' = IF full THEN clients ELSE r.clients
     /\ emitted' = IF full THEN <<>> ELSE r.events
     /\ ret' = [op |-> "sendToClient", value |-> ~full /\ r.success]
     /\ tally' = <<>>
     /\ UNCHANGED <<messageQueue, queueProcessingInterval, timers, now, received>>

\* sendToClient called directly
sendToClient(clientId, type, data, throws) ==
  LET r == SendToClient(clients, clientId, type, data, throws)
  IN /\ clients' = r.clients
     /\ emitted' = r.events
     /\ ret' = [op |-> "sendToClient", value |-> r.success]
     /\ tally' = <<>>
     /\ UNCHANGED <<messageQueue, queueProcessingInterval, timers, now, received>>

\* startQueueProcessing without the early return
startQueueProcessing_NoGuard ==
  /\ queueProcessingInterval' = TRUE
  /\ timers' = timers + 1
  /\ emitted' = <<[name |-> "queue:processing-started"]>>
  /\ ret' = [op |-> "startQueueProcessing", value |-> {}]
  /\ tally' = <<>>
  /\ UNCHANGED <<clients, messageQueue, now, received>>

\* startQueueProcessing(intervalMs)
startQueueProcessing ==
  /\ IF queueProcessingInterval
       THEN /\ emitted' = <<>>
            /\ UNCHANGED <<queueProcessingInterval, timers>>
       ELSE /\ queueProcessingInterval' = TRUE
            /\ timers' = timers + 1
            /\ emitted' = <<[name |-> "queue:processing-started"]>>
  /\ ret' = [op |-> "startQueueProcessing", value |-> {}]
  /\ tally' = <<>>
  /\ UNCHANGED <<clients, messageQueue, now, received>>

\* stopQueueProcessing() as a function of the field: [interval, cleared,
\* events], cleared being the number of timers clearInterval is called on
StopQueueProcessing(interval) ==
  IF interval
    THEN [interval |-> FALSE, cleared |-> 1,
          events |-> <<[name |-> "queue:processing-stopped"]>>]
    ELSE [interval |-> FALSE, cleared |-> 0, events |-> <<>>]

stopQueueProcessing ==
  /\ queueProcessingInterval' = StopQueueProcessing(queueProcessingInterval).interval
  /\ timers' = timers - StopQueueProcessing(queueProcessingInterval).cleared
  /\ emitted' = StopQueueProcessing(queueProcessingInterval).events
  /\ ret' = [op |-> "stopQueueProcessing", value |-> {}]
  /\ tally' = <<>>
  /\ UNCHANGED <<clients, messageQueue, now, received>>

\* messageQueue.delete(id)
QueueDelete(q, id) == SelectSeq(q, LAMBDA b : b.id # id)

\* the loop with an unknown id passed over: counted neither sent nor failed
RECURSIVE ForEachTarget_SkipUnknown(_, _, _, _)
ForEachTarget_SkipUnknown(acc, b, ts, thr) ==
  IF ts = <<>> THEN acc
  ELSE LET clientId == Head(ts)
           r == SendToClient(acc.clients, clientId, b.type, b.data,
                             <<b.id, clientId>> \in thr)
       IN ForEachTarget_SkipUnknown(
            [clients |-> r.clients,
             events |-> acc.events \o r.events,
             sentCount |-> IF r.success THEN acc.sentCount + 1 ELSE acc.sentCount,
             failedCount |-> IF r.success \/ r.outcome = "unknown"
                               THEN acc.failedCount ELSE acc.failedCount + 1,
             results |-> acc.results \cup {<<clientId, r.outcome>>}],
            b, Tail(ts), thr)

\* the loop given up at the first send that fails
RECURSIVE ForEachTarget_StopAtFailure(_, _, _, _)
ForEachTarget_StopAtFailure(acc, b, ts, thr) ==
  IF ts = <<>> THEN acc
  ELSE LET clientId == Head(ts)
           r == SendToClient(acc.clients, clientId, b.type, b.data,
                             <<b.id, clientId>> \in thr)
       IN ForEachTarget_StopAtFailure(
            [clients |-> r.clients,
             events |-> acc.events \o r.events,
             sentCount |-> IF r.success THEN acc.sentCount + 1 ELSE acc.sentCount,
             failedCount |-> IF r.success THEN acc.failedCount ELSE acc.failedCount + 1,
             results |-> acc.results \cup {<<clientId, r.outcome>>}],
            b, IF r.success THEN Tail(ts) ELSE <<>>, thr)

\* broadcast.targetClients.forEach(clientId => ...) of processQueue: the
\* remaining targets ts of broadcast b; acc carries the registry, the events,
\* sentCount, failedCount and the outcome of each send
RECURSIVE ForEachTarget(_, _, _, _)
ForEachTarget(acc, b, ts, thr) ==
  IF ts = <<>> THEN acc
  ELSE LET clientId == Head(ts)
           r == SendToClient(acc.clients, clientId, b.type, b.data,
                             <<b.id, clientId>> \in thr)
       IN ForEachTarget(
            [clients |-> r.clients,
             events |-> acc.events \o r.events,
             sentCount |-> IF r.success THEN acc.sentCount + 1 ELSE acc.sentCount,
             failedCount |-> IF r.success THEN acc.failedCount ELSE acc.failedCount + 1,
             results |-> acc.results \cup {<<clientId, r.outcome>>}],
            b, Tail(ts), thr)

\* what the sweep keeps of one broadcast's sends
Counted(b, r) ==
  [broadcast |-> b, results |-> r.results,
   sentCount |-> r.sentCount, failedCount |-> r.failedCount]

\* the same decision with retryCount advanced by the number of failed sends
Settle_CountFailures(st, b, r) ==
  IF r.failedCount > 0
    THEN LET exceeded == b.retryCount + r.failedCount >= b.maxRetries
         IN [clients |-> r.clients,
             queue |-> [st.queue EXCEPT
                          ![IndexOf(st.queue, b.id)].retryCount = @ + r.failedCount],
             failedBroadcasts |->
               IF exceeded THEN Append(st.failedBroadcasts, b.id)
               ELSE st.failedBroadcasts,
             events |-> st.events \o r.events \o
               (IF exceeded
                  THEN <<[name |-> "broadcast:max-retries-exceeded",
                          broadcastId |-> b.id, type |-> b.type,
                          failedCount |-> r.failedCount]>>
                  ELSE <<>>),
             tally |-> Append(st.tally, Counted(b, r))]
    ELSE [clients |-> r.clients,
          queue |-> QueueDelete(st.queue, b.id),
          failedBroadcasts |-> st.failedBroadcasts,
          events |-> st.events \o r.events \o
            <<[name |-> "broadcast:completed",
               broadcastId |-> b.id, type |-> b.type,
               sentCount |-> r.sentCount]>>,
          tally |-> Append(st.tally, Counted(b, r))]

\* the same decision with the targets that were sent to taken off a
\* broadcast that stays queued
Settle_KeepFailed(st, b, r) ==
  IF r.failedCount > 0
    THEN LET exceeded == b.retryCount + 1 >= b.maxRetries
             sent == {p[1] : p \in {q \in r.results : q[2] = "sent"}}
         IN [clients |-> r.clients,
             queue |-> [st.queue EXCEPT
                          ![IndexOf(st.queue, b.id)] =
                             [@ EXCEPT !.retryCount = @ + 1,
                                       !.targetClients = @ \ sent]],
             failedBroadcasts |->
               IF exceeded THEN Append(st.failedBroadcasts, b.id)
               ELSE st.failedBroadcasts,
             events |-> st.events \o r.events \o
               (IF exceeded
                  THEN <<[name |-> "broadcast:max-retries-exceeded",
                          broadcastId |-> b.id, type |-> b.type,
                          failedCount |-> r.failedCount]>>
                  ELSE <<>>),
             tally |-> Append(st.tally, Counted(b, r))]
    ELSE [clients |-> r.clients,
          queue |-> QueueDelete(st.queue, b.id),
          failedBroadcasts |-> st.failedBroadcasts,
          events |-> st.events \o r.events \o
            <<[name |-> "broadcast:completed",
               broadcastId |-> b.id, type |-> b.type,
               sentCount |-> r.sentCount]>>,
          tally |-> Append(st.tally, Counted(b, r))]

\* the same decision with a broadcast kept for another retry however many
\* it has had
Settle_NeverDrop(st, b, r) ==
  IF r.failedCount > 0
    THEN [clients |-> r.clients,
          queue |-> [st.queue EXCEPT ![IndexOf(st.queue, b.id)].retryCount = @ + 1],
          failedBroadcasts |-> st.failedBroadcasts,
          events |-> st.events \o r.events,
          tally |-> Append(st.tally, Counted(b, r))]
    ELSE [clients |-> r.clients,
          queue |-> QueueDelete(st.queue, b.id),
          failedBroadcasts |-> st.failedBroadcasts,
          events |-> st.events \o r.events \o
            <<[name |-> "broadcast:completed",
               broadcastId |-> b.id, type |-> b.type,
               sentCount |-> r.sentCount]>>,
          tally |-> Append(st.tally, Counted(b, r))]

\* the same decision, completing as soon as any send succeeded
Settle_AnySuccess(st, b, r) ==
  IF r.failedCount > 0 /\ r.sentCount = 0
    THEN LET exceeded == b.retryCount + 1 >= b.maxRetries
         IN [clients |-> r.clients,
             queue |-> [st.queue EXCEPT ![IndexOf(st.queue, b.id)].retryCount = @ + 1],
             failedBroadcasts |->
               IF exceeded THEN Append(st.failedBroadcasts, b.id)
               ELSE st.failedBroadcasts,
             events |-> st.events \o r.events \o
               (IF exceeded
                  THEN <<[name |-> "broadcast:max-retries-exceeded",
                          broadcastId |-> b.id, type |-> b.type,
                          failedCount |-> r.failedCount]>>
                  ELSE <<>>),
             tally |-> Append(st.tally, Counted(b, r))]
    ELSE [clients |-> r.clients,
          queue |-> QueueDelete(st.queue, b.id),
          failedBroadcasts |-> st.failedBroadcasts,
          events |-> st.events \o r.events \o
            <<[name |-> "broadcast:completed",
               broadcastId |-> b.id, type |-> b.type,
               sentCount |-> r.sentCount]>>,
          tally |-> Append(st.tally, Counted(b, r))]

\* the same decision, giving up only once retryCount has passed maxRetries
Settle_OneMoreTry(st, b, r) ==
  IF r.failedCount > 0
    THEN LET exceeded == b.retryCount + 1 > b.maxRetries
         IN [clients |-> r.clients,
             queue |-> [st.queue EXCEPT ![IndexOf(st.queue, b.id)].retryCount = @ + 1],
             failedBroadcasts |->
               IF exceeded THEN Append(st.failedBroadcasts, b.id)
               ELSE st.failedBroadcasts,
             events |-> st.events \o r.events \o
               (IF exceeded
                  THEN <<[name |-> "broadcast:max-retries-exceeded",
                          broadcastId |-> b.id, type |-> b.type,
                          failedCount |-> r.failedCount]>>
                  ELSE <<>>),
             tally |-> Append(st.tally, Counted(b, r))]
    ELSE [clients |-> r.clients,
          queue |-> QueueDelete(st.queue, b.id),
          failedBroadcasts |-> st.failedBroadcasts,
          events |-> st.events \o r.events \o
            <<[name |-> "broadcast:completed",
               broadcastId |-> b.id, type |-> b.type,
               sentCount |-> r.sentCount]>>,
          tally |-> Append(st.tally, Counted(b, r))]

\* the same decision, a completed broadcast left in the queue
Settle_KeepCompleted(st, b, r) ==
  IF r.failedCount > 0
    THEN LET exceeded == b.retryCount + 1 >= b.maxRetries
         IN [clients |-> r.clients,
             queue |-> [st.queue EXCEPT ![IndexOf(st.queue, b.id)].retryCount = @ + 1],
             failedBroadcasts |->
               IF exceeded THEN Append(st.failedBroadcasts, b.id)
               ELSE st.failedBroadcasts,
             events |-> st.events \o r.events \o
               (IF exceeded
                  THEN <<[name |-> "broadcast:max-retries-exceeded",
                          broadcastId |-> b.id, type |-> b.type,
                          failedCount |-> r.failedCount]>>
                  ELSE <<>>),
             tally |-> Append(st.tally, Counted(b, r))]
    ELSE [clients |-> r.clients,
          queue |-> st.queue,
          failedBroadcasts |-> st.failedBroadcasts,
          events |-> st.events \o r.events \o
            <<[name |-> "broadcast:completed",
               broadcastId |-> b.id, type |-> b.type,
               sentCount |-> r.sentCount]>>,
          tally |-> Append(st.tally, Counted(b, r))]

\* the if (failedCount > 0) ... else ... of processQueue for broadcast b, r
\* being what the loop over its targets counted
Settle(st, b, r) ==
  IF r.failedCount > 0
    THEN LET exceeded == b.retryCount + 1 >= b.maxRetries
         IN [clients |-> r.clients,
             queue |-> [st.queue EXCEPT ![IndexOf(st.queue, b.id)].retryCount = @ + 1],
             failedBroadcasts |->
               IF exceeded THEN Append(st.failedBroadcasts, b.id)
               ELSE st.failedBroadcasts,
             events |-> st.events \o r.events \o
               (IF exceeded
                  THEN <<[name |-> "broadcast:max-retries-exceeded",
                          broadcastId |-> b.id, type |-> b.type,
                          failedCount |-> r.failedCount]>>
                  ELSE <<>>),
             tally |-> Append(st.tally, Counted(b, r))]
    ELSE [clients |-> r.clients,
          queue |-> QueueDelete(st.queue, b.id),
          failedBroadcasts |-> st.failedBroadcasts,
          events |-> st.events \o r.events \o
            <<[name |-> "broadcast:completed",
               broadcastId |-> b.id, type |-> b.type,
               sentCount |-> r.sentCount]>>,
          tally |-> Append(st.tally, Counted(b, r))]

\* the body run over the ids registered now instead of the broadcast's own
ProcessBroadcast_LiveRegistry(st, b, thr) ==
  Settle(st, b,
         ForEachTarget([clients |-> st.clients, events |-> <<>>,
                        sentCount |-> 0, failedCount |-> 0, results |-> {}],
                       b, SetToSeq(DOMAIN st.clients), thr))

\* the body of messageQueue.forEach in processQueue, for one broadcast
ProcessBroadcast(st, b, thr) ==
  Settle(st, b,
         ForEachTarget([clients |-> st.clients, events |-> <<>>,
                        sentCount |-> 0, failedCount |-> 0, results |-> {}],
                       b, SetToSeq(b.targetClients), thr))

\* messageQueue.forEach(...) over the entries bs still to visit
RECURSIVE ForEachBroadcast(_, _, _)
ForEachBroadcast(st, bs, thr) ==
  IF bs = <<>> THEN st
  ELSE ForEachBroadcast(ProcessBroadcast(st, Head(bs), thr), Tail(bs), thr)

\* failedBroadcasts.forEach(id => messageQueue.delete(id))
RECURSIVE DeleteAll(_, _)
DeleteAll(q, ids) ==
  IF ids = <<>> THEN q ELSE DeleteAll(QueueDelete(q, Head(ids)), Tail(ids))

\* processQueue() with the sends in thr raising: the state it ends in
ProcessQueue(cl, q, thr) ==
  LET st == ForEachBroadcast([clients |-> cl, queue |-> q,
                              failedBroadcasts |-> <<>>, events |-> <<>>,
                              tally |-> <<>>], q, thr)
  IN [st EXCEPT !.queue = DeleteAll(st.queue, st.failedBroadcasts)]

\* the sends of a sweep that reach ws.send, each of which may raise
Sendable ==
  {<<messageQueue[i].id, c>> : i \in DOMAIN messageQueue, c \in ClientIds} \cap
  {p \in BroadcastIds \X ClientIds :
     \E i \in DOMAIN messageQueue :
        /\ messageQueue[i].id = p[1]
        /\ p[2] \in messageQueue[i].targetClients
        /\ messageQueue[i].data = "plain"
        /\ Has(clients, p[2])
        /\ clients[p[2]].ws.readyState = "OPEN"}

\* one firing of a setInterval timer: processQueue()
Sweep(thr) ==
  /\ timers > 0
  /\ LET st == ProcessQueue(clients, messageQueue, thr)
     IN /\ clients' = st.clients
        /\ messageQueue' = st.queue
        /\ emitted' = st.events
        /\ tally' = st.tally
  /\ ret' = [op |-> "processQueue", value |-> {}]
  /\ UNCHANGED <<queueProcessingInterval, timers, now>>

processQueue(thr) ==
  /\ Sweep(thr)
  /\ UNCHANGED received

\* received[c], 0 for a client that was handed nothing
Received(c) == IF c \in DOMAIN received THEN received[c] ELSE 0

\* the sweep with every message handed to a socket counted in received
processQueueCounted(thr) ==
  /\ Sweep(thr)
  /\ LET handed(c) == {i \in DOMAIN tally' : <<c, "sent">> \in tally'[i].results}
     IN received' =
          [c \in DOMAIN received \cup {d \in DOMAIN clients : handed(d) # {}} |->
             Received(c) + Cardinality(handed(c))]

\* the clients.forEach of closeAll given up at the first close() that raises
RECURSIVE ForEachClose_StopAtThrow(_, _, _, _)
ForEachClose_StopAtThrow(acc, cl, ids, closeThrows) ==
  IF ids = <<>> THEN acc
  ELSE LET clientId == Head(ids)
       IN IF cl[clientId].ws.readyState # "OPEN"
            THEN ForEachClose_StopAtThrow(acc, cl, Tail(ids), closeThrows)
          ELSE IF clientId \in closeThrows
            THEN [closeCalled |-> acc.closeCalled \cup {clientId},
                  events |-> Append(acc.events,
                               [name |-> "client:close-error",
                                clientId |-> clientId])]
          ELSE ForEachClose_StopAtThrow(
                 [closeCalled |-> acc.closeCalled \cup {clientId},
                  events |-> acc.events],
                 cl, Tail(ids), closeThrows)

\* clients.forEach((client, clientId) => ...) of closeAll over the ids still
\* to visit; acc = [closeCalled, events], closeCalled being the ids whose
\* ws.close(code, reason) was called
RECURSIVE ForEachClose(_, _, _, _)
ForEachClose(acc, cl, ids, closeThrows) ==
  IF ids = <<>> THEN acc
  ELSE LET clientId == Head(ids)
       IN IF cl[clientId].ws.readyState # "OPEN"
            THEN ForEachClose(acc, cl, Tail(ids), closeThrows)
          ELSE ForEachClose(
                 [closeCalled |-> acc.closeCalled \cup {clientId},
                  events |-> IF clientId \in closeThrows
                               THEN Append(acc.events,
                                      [name |-> "client:close-error",
                                       clientId |-> clientId])
                               ELSE acc.events],
                 cl, Tail(ids), closeThrows)

\* closeAll(code, reason); closeThrows are the sockets whose close() raises
closeAll(closeThrows) ==
  LET closing == ForEachClose([closeCalled |-> {}, events |-> <<>>], clients,
                              SetToSeq(DOMAIN clients), closeThrows)
      stopped == StopQueueProcessing(queueProcessingInterval)
  IN /\ clients' = <<>>
     /\ queueProcessingInterval' = stopped.interval
     /\ timers' = timers - stopped.cleared
     /\ emitted' = closing.events \o stopped.events
                     \o <<[name |-> "broadcaster:closed"]>>
     /\ ret' = [op |-> "closeAll", value |-> {},
                closeCalled |-> closing.closeCalled]
     /\ tally' = <<>>
     /\ UNCHANGED <<messageQueue, now, received>>

\* the peer or the network closes a registered socket (ws.readyState changes)
SocketClosed(id) ==
  /\ Has(clients, id)
  /\ clients[id].ws.readyState = "OPEN"
  /\ clients' = [clients EXCEPT ![id].ws.readyState = "CLOSED"]
  /\ emitted' = <<>>
  /\ ret' = [op |-> "ws:close", value |-> {}]
  /\ tally' = <<>>
  /\ UNCHANGED <<messageQueue, queueProcessingInterval, timers, now, received>>

\* the clock moves on between two operations
Tick ==
  /\ now < MaxNow
  /\ now' = now + 1
  /\ emitted' = <<>>
  /\ ret' = [op |-> "clock", value |-> {}]
  /\ tally' = <<>>
  /\ UNCHANGED <<clients, messageQueue, queueProcessingInterval, timers, received>>

\* the registered clients whose socket is open
OpenClients == {c \in DOMAIN clients : clients[c].ws.readyState = "OPEN"}

Init ==
  /\ clients = <<>>
  /\ messageQueue = <<>>
  /\ queueProcessingInterval = FALSE
  /\ timers = 0
  /\ now = 0
  /\ received = <<>>
  /\ emitted = <<>>
  /\ ret = [op |-> "constructor", value |-> {}]
  /\ tally = <<>>

\* Each specification below is the same class; they differ in the inputs the
\* environment feeds it.

\* Registry and queue: sockets that stay open and accept every send, so a
\* send fails only for a target that has left; tags that come and go.
Next ==
  \/ \E id \in ClientIds, tags \in SUBSET Tags : registerClient(id, "OPEN", tags)
  \/ \E id \in ClientIds : unregisterClient(id)
  \/ \E id \in ClientIds, tag \in Tags : addClientTag(id, tag)
  \/ \E id \in ClientIds, tag \in Tags : removeClientTag(id, tag)
  \/ \E r \in BroadcastIds, data \in QueuedPayloads : broadcast(r, "alert", data)
  \/ \E r \in BroadcastIds, ids \in SUBSET ClientIds, data \in QueuedPayloads :
       broadcastToClients(r, ids, "alert", data)
  \/ \E r \in BroadcastIds, tag \in Tags, data \in QueuedPayloads :
       broadcastToTag(r, tag, "alert", data)
  \/ clearQueue
  \/ startQueueProcessing
  \/ processQueue({})

Spec == Init /\ [][Next]_vars

\* Notifications: as above with two message types and no tags.
NextNotify ==
  \/ \E id \in ClientIds : registerClient(id, "OPEN", {})
  \/ \E id \in ClientIds : unregisterClient(id)
  \/ \E r \in BroadcastIds, type \in Types, data \in QueuedPayloads :
       broadcast(r, type, data)
  \/ \E r \in BroadcastIds, ids \in SUBSET ClientIds, type \in Types,
        data \in QueuedPayloads : broadcastToClients(r, ids, type, data)
  \/ clearQueue
  \/ startQueueProcessing
  \/ processQueue({})

SpecNotify == Init /\ [][NextNotify]_vars

\* Delivery: one message type and no tags, but sockets that may be closed at
\* registration or close later, and sends that may raise.
NextDelivery ==
  \/ \E id \in ClientIds, rs \in {"OPEN", "CLOSED"} :
       registerClientNoted(id, rs, {})
  \/ \E id \in ClientIds : unregisterClient(id)
  \/ \E r \in DeliveryIds, data \in QueuedPayloads : broadcast(r, "alert", data)
  \/ \E r \in DeliveryIds, ids \in SUBSET ClientIds, data \in QueuedPayloads :
       broadcastToClients(r, ids, "alert", data)
  \/ startQueueProcessing
  \/ \E thr \in SUBSET Sendable : processQueue(thr)
  \/ \E id \in ClientIds : SocketClosed(id)

SpecDelivery == Init /\ [][NextDelivery]_vars

\* nothing is queued and no socket has been handed a message
Quiet == messageQueue = <<>> /\ received = <<>>

\* Duplicate delivery: up to three clients, open or closed, register while
\* nothing is queued; one broadcast at a time goes to all of them and the
\* sweeps count what every socket is handed.
NextDuplicate ==
  \/ \E id \in TrioIds, rs \in {"OPEN", "CLOSED"} :
       Quiet /\ registerClient(id, rs, {})
  \/ \E r \in DeliveryIds, data \in QueuedPayloads :
       Quiet /\ broadcast(r, "alert", data)
  \/ startQueueProcessing
  \/ processQueueCounted({})

SpecDuplicate == Init /\ [][NextDuplicate]_vars

\* Liveness: the sockets and the registry of the delivery specification and
\* generateId() returning ids that are not in the queue.
NextLive ==
  \/ \E id \in ClientIds, rs \in {"OPEN", "CLOSED"} : registerClient(id, rs, {})
  \/ \E id \in ClientIds : unregisterClient(id)
  \/ \E r \in DeliveryIds, data \in QueuedPayloads :
       /\ \A i \in DOMAIN messageQueue : messageQueue[i].id # generateId(r)
       /\ broadcast(r, "alert", data)
  \/ startQueueProcessing
  \/ \E thr \in SUBSET Sendable : processQueue(thr)
  \/ \E id \in ClientIds : SocketClosed(id)

\* a sweep, whichever sends raise
TimerFires == \E thr \in SUBSET Sendable : processQueue(thr)

\* setInterval: a timer that stays set fires again and again.  This is weak
\* fairness of the sweep with its enabling condition written out: a sweep
\* can run when a timer is set, and changes something when a broadcast is
\* queued.
TimerKeepsFiring ==
  \/ []<>(timers = 0 \/ messageQueue = <<>>)
  \/ []<><<TimerFires>>_vars

SpecLive ==
  /\ Init
  /\ [][NextLive]_vars
  /\ TimerKeepsFiring

\* Direct sends and the timer: clients with open or closed sockets, direct
\* sends of type "tx" beside queued broadcasts of type "alert", and the
\* delivery loop started and stopped at any time.
NextDirect ==
  \/ \E id \in ClientIds, rs \in {"OPEN", "CLOSED"} : registerClient(id, rs, {})
  \/ \E r \in DeliveryIds, data \in QueuedPayloads : broadcast(r, "alert", data)
  \/ \E id \in ClientIds, data \in Payloads, throws \in BOOLEAN :
       sendToClient(id, "tx", data, throws)
  \/ startQueueProcessing
  \/ stopQueueProcessing
  \/ processQueue({})

SpecDirect == Init /\ [][NextDirect]_vars

\* Registry: clients with open or closed sockets and tags that come and go,
\* direct sends, a clock that moves, and closeAll with close() calls that
\* may raise.
NextRegistry ==
  \/ \E id \in ClientIds, rs \in {"OPEN", "CLOSED"}, tags \in SUBSET Tags :
       registerClient(id, rs, tags)
  \/ \E id \in ClientIds : unregisterClient(id)
  \/ \E id \in ClientIds, tag \in Tags : addClientTag(id, tag)
  \/ \E id \in ClientIds, tag \in Tags : removeClientTag(id, tag)
  \/ \E id \in ClientIds : sendToClient(id, "tx", "plain", FALSE)
  \/ startQueueProcessing
  \/ \E closeThrows \in SUBSET OpenClients : closeAll(closeThrows)
  \/ Tick

SpecRegistry == Init /\ [][NextRegistry]_vars

\* Tags: clients with open sockets whose tags come and go, and broadcasts
\* by tag only.
NextTag ==
  \/ \E id \in ClientIds, tags \in SUBSET Tags : registerClient(id, "OPEN", tags)
  \/ \E id \in ClientIds, tag \in Tags : addClientTag(id, tag)
  \/ \E id \in ClientIds, tag \in Tags : removeClientTag(id, tag)
  \/ \E r \in DeliveryIds, tag \in Tags, data \in QueuedPayloads :
       broadcastToTag(r, tag, "alert", data)
  \/ startQueueProcessing
  \/ processQueue({})

SpecTag == Init /\ [][NextTag]_vars

\* Clock: direct sends and sweeps whose sends may raise, with a clock that
\* moves between the operations.
NextClock ==
  \/ \E id \in ClientIds, rs \in {"OPEN", "CLOSED"} : registerClient(id, rs, {})
  \/ \E r \in DeliveryIds, data \in QueuedPayloads : broadcast(r, "alert", data)
  \/ \E id \in ClientIds, data \in Payloads, throws \in BOOLEAN :
       sendToClient(id, "tx", data, throws)
  \/ startQueueProcessing
  \/ \E thr \in SUBSET Sendable : processQueue(thr)
  \/ Tick

SpecClock == Init /\ [][NextClock]_vars

\* Shutdown: broadcasts queued for clients with open or closed sockets, the
\* loop started at any time, and closeAll and clearQueue called at any time.
NextShutdown ==
  \/ \E id \in ClientIds, rs \in {"OPEN", "CLOSED"} : registerClient(id, rs, {})
  \/ \E r \in DeliveryIds, data \in QueuedPayloads : broadcast(r, "alert", data)
  \/ startQueueProcessing
  \/ processQueue({})
  \/ \E closeThrows \in SUBSET OpenClients : closeAll(closeThrows)
  \/ clearQueue

SpecShutdown == Init /\ [][NextShutdown]_vars

\* ---------------------------------------------------------- risk engine
\* RiskEngine (unnamed/part_000) is stateless: evaluateEvent is a function of
\* the event alone.  An optional field is the empty set when absent and a
\* singleton when present, as null is modelled elsewhere.  Factor values and
\* weights are hundredths (0.35 is 35); the score is kept as the exact
\* fraction totalWeightedScore / totalWeight.  For every input below the
\* exact quotient and the double the engine computes fall in the same
\* bucket (the closest case, 0.52 / 0.65, gives 0.8000000000000002).

MAX_SAFE_AMOUNT == 1000000000

SUSPICIOUS_PROGRAMS == {}

Amounts == {0, 1, 500000001, 1000000001}

ProgramIds == {"", "unknown", "UNKNOWN", "TokenkegQ"}

EventTypes ==
  {"transfer", "swap", "liquidation", "flash_loan", "FLASH_LOAN", "unknown",
   "mint"}

\* String.prototype.toLowerCase on the strings above
toLowerCase(s) ==
  CASE s = "UNKNOWN" -> "unknown"
    [] s = "FLASH_LOAN" -> "flash_loan"
    [] s = "TokenkegQ" -> "tokenkegq"
    [] OTHER -> s

\* evaluateEvent never passes undefined: see AmountOrZero
evaluateAmount(amount) ==
  IF amount = {} THEN {}
  ELSE LET a == CHOOSE x \in amount : TRUE
           value == IF a = 0 THEN 10
                    ELSE IF a > MAX_SAFE_AMOUNT THEN 80
                    ELSE IF 2 * a > MAX_SAFE_AMOUNT THEN 50
                    ELSE 10
       IN {[name |-> "Amount Risk", weight |-> 30, value |-> value]}

\* programId arrives already defaulted to '', which is falsy
evaluateProgram(programId) ==
  IF programId = "" THEN {}
  ELSE LET value == IF programId \in SUSPICIOUS_PROGRAMS THEN 90
                    ELSE IF toLowerCase(programId) = "unknown" THEN 70
                    ELSE 20
       IN {[name |-> "Program Risk", weight |-> 35, value |-> value]}

evaluateEventType(eventType) ==
  LET t == toLowerCase(eventType)
      value == CASE t = "transfer" -> 20
                 [] t = "swap" -> 30
                 [] t = "liquidation" -> 60
                 [] t = "flash_loan" -> 80
                 [] t = "unknown" -> 50
                 [] OTHER -> 30
  IN {[name |-> "Event Type Risk", weight |-> 35, value |-> value]}

\* score < bound / 100, for a score kept as a fraction
ScoreBelow(score, bound) == score.num < bound * score.den

scoreToLevel(score) ==
  IF ScoreBelow(score, 20) THEN "MINIMAL"
  ELSE IF ScoreBelow(score, 40) THEN "LOW"
  ELSE IF ScoreBelow(score, 60) THEN "MEDIUM"
  ELSE IF ScoreBelow(score, 80) THEN "HIGH"
  ELSE "CRITICAL"

\* totalWeightedScore after the factor loop
RECURSIVE SumWeighted(_)
SumWeighted(factors) ==
  IF factors = <<>> THEN 0
  ELSE Head(factors).value * Head(factors).weight + SumWeighted(Tail(factors))

\* totalWeight after the factor loop
RECURSIVE SumWeight(_)
SumWeight(factors) ==
  IF factors = <<>> THEN 0
  ELSE Head(factors).weight + SumWeight(Tail(factors))

\* the amount handed to evaluateAmount: eventData.amount ?? 0
AmountOrZero(eventData) ==
  IF eventData.amount = {} THEN {0} ELSE eventData.amount

\* the program id handed to evaluateProgram: eventData.programId ?? ''
ProgramIdOrEmpty(eventData) ==
  IF eventData.programId = {} THEN ""
  ELSE CHOOSE p \in eventData.programId : TRUE

\* the value of RiskEngine.evaluateEvent (its timestamp left out)
EvaluateEvent(eventData) ==
  LET amountFactor == evaluateAmount(AmountOrZero(eventData))
      programFactor == evaluateProgram(ProgramIdOrEmpty(eventData))
      eventTypeFactor == evaluateEventType(eventData.eventType)
      factors == SetToSeq(amountFactor) \o SetToSeq(programFactor)
                   \o SetToSeq(eventTypeFactor)
      totalWeightedScore == SumWeighted(factors)
      totalWeight == SumWeight(factors)
      score == IF totalWeight > 0
               THEN [num |-> totalWeightedScore, den |-> totalWeight]
               ELSE [num |-> 0, den |-> 1]
      normalizedScore ==
        IF score.num < 0 THEN [num |-> 0, den |-> 1]
        ELSE IF score.num > 100 * score.den THEN [num |-> 100, den |-> 1]
        ELSE score
  IN [score |-> normalizedScore, level |-> scoreToLevel(normalizedScore),
      factors |-> factors]

\* one call of the engine from outside; the broadcaster is not involved
evaluateEvent(eventData) ==
  /\ ret' = [op |-> "evaluateEvent", eventData |-> eventData,
             value |-> EvaluateEvent(eventData)]
  /\ emitted' = <<>>
  /\ tally' = <<>>
  /\ UNCHANGED <<clients, messageQueue, queueProcessingInterval, timers, now,
                 received>>

\* the events the engine is asked about
EventDatas ==
  [amount : {{}} \cup {{a} : a \in Amounts},
   programId : {{}} \cup {{p} : p \in ProgramIds},
   eventType : EventTypes]

\* Risk engine: events scored one after another.
NextRisk == \E eventData \in EventDatas : evaluateEvent(eventData)

SpecRisk == Init /\ [][NextRisk]_vars

\* ------------------------------------------------------------ normalizer
\* EventNormalizer (second half of broadcaster.ts) is a class of static, pure
\* functions.  An optional property is the empty set when absent and a
\* singleton when present.

SystemProgramId == "11111111111111111111111111111111"

TokenProgramId == "TokenkegQfeZyiNwAJbNbGKPFXCWuBvf9Ss623VQ5DA"

Token2022ProgramId == "TokenzQdBNbLqP5VEhdkAS6EPFLC1PHnBqCXEpPxuEb"

MemoProgramId == "MemoSq4gqABAXKb96qnH8TysNcWxMyWCqXgDLGmfcHr"

StakeProgramId == "Stake11111111111111111111111111111111111111"

VoteProgramId == "Vote111111111111111111111111111111111111111"

OtherProgramId == "JUP6LkbZbjS1jKKwapdHNy74zcZ3tLUZoi5QNyVTaV4"

\* String.prototype.includes, on the program ids above
Includes(s, needle) ==
  needle = "TokenzQdBNbLqP" /\ s = Token2022ProgramId

\* Number.prototype.toString, on the lamport amounts below
NumberToString(n) ==
  CASE n = 0 -> "0"
    [] n = 5000000 -> "5000000"

\* the payload of a parsed instruction; truthy is FALSE for a payload such as
\* the empty memo text, which JavaScript takes for false
Payload(truthy, type, source, destination, lamports, amount, mint) ==
  [truthy |-> truthy, type |-> type, source |-> source,
   destination |-> destination, lamports |-> lamports,
   tokenAmount |-> {}, amount |-> amount, mint |-> mint]

\* a ParsedInstruction {program, programId, parsed}
Parsed(programId, program, parsed) ==
  [programId |-> programId, program |-> {program}, parsed |-> {parsed},
   accounts |-> {}, data |-> {}]

\* a PartiallyDecodedInstruction {programId, accounts, data}
PartiallyDecoded(programId, accounts, data) ==
  [programId |-> programId, program |-> {}, parsed |-> {},
   accounts |-> {accounts}, data |-> {data}]

Instructions ==
  { PartiallyDecoded(OtherProgramId, <<"A", "B">>, "3Bxs4h"),
    Parsed(SystemProgramId, "system",
           Payload(TRUE, {"transfer"}, {"A"}, {"B"}, {5000000}, {}, {})),
    Parsed(SystemProgramId, "system",
           Payload(TRUE, {"createAccount"}, {"A"}, {}, {0}, {}, {})),
    Parsed(TokenProgramId, "spl-token",
           Payload(TRUE, {"transfer"}, {"B"}, {"A"}, {}, {"25"}, {})),
    Parsed(Token2022ProgramId, "spl-token-2022",
           [Payload(TRUE, {"mintTo"}, {}, {}, {}, {"7"}, {"M"})
              EXCEPT !.tokenAmount = {[amount |-> {"9"}]}]),
    Parsed(MemoProgramId, "spl-memo", Payload(FALSE, {}, {}, {}, {}, {}, {})),
    Parsed(MemoProgramId, "spl-memo", Payload(TRUE, {}, {}, {}, {}, {}, {})),
    Parsed(StakeProgramId, "stake",
           Payload(TRUE, {"deactivate"}, {}, {}, {}, {}, {})),
    Parsed(VoteProgramId, "vote", Payload(TRUE, {"vote"}, {}, {}, {}, {}, {})) }

\* the only member of a singleton
The(S) == CHOOSE x \in S : TRUE

\* one step of the instructions.map callback
ProcessInstruction(instruction, index) ==
  LET hasParsed == instruction.parsed # {}
      truthyParsed == hasParsed /\ The(instruction.parsed).truthy
  IN [index |-> index,
      programId |-> instruction.programId,
      type |-> IF hasParsed /\ instruction.program # {}
               THEN The(instruction.program)
               ELSE "unknown",
      parsed |-> IF truthyParsed THEN instruction.parsed ELSE {},
      raw |-> IF instruction.data # {} /\ The(instruction.data) # ""
              THEN instruction.data ELSE {},
      accounts |-> IF instruction.accounts = {} THEN <<>>
                   ELSE The(instruction.accounts)]

processInstructions(instructions) ==
  [i \in DOMAIN instructions |-> ProcessInstruction(instructions[i], i - 1)]

\* (parsed.tokenAmount?.amount)?.toString() || (parsed.amount)?.toString()
TokenAmountOf(parsed) ==
  LET first == IF parsed.tokenAmount = {} THEN {}
               ELSE The(parsed.tokenAmount).amount
  IN IF first # {} /\ The(first) # "" THEN first ELSE parsed.amount

\* what every return of determineEventType has in common
Determined(type, subType, from, to, amount, mint, programId) ==
  [type |-> type, subType |-> subType, from |-> from, to |-> to,
   amount |-> amount, mint |-> mint, programId |-> programId]

\* classifies by the first instruction that carries a payload at all
determineEventType_FirstParsed(instructions, feePayerAddress) ==
  LET known == {i \in DOMAIN instructions : instructions[i].parsed # {}}
      programId == IF instructions = <<>> THEN "unknown"
                   ELSE instructions[1].programId
  IN IF known = {}
     THEN Determined("unknown", {}, feePayerAddress, {}, {}, {}, programId)
     ELSE LET primary ==
                instructions[CHOOSE i \in known : \A j \in known : i <= j]
              parsed == The(primary.parsed)
          IN IF primary.type = "system" /\ parsed.type = {"transfer"}
             THEN Determined("transfer", {},
                             IF parsed.source # {} THEN The(parsed.source)
                             ELSE feePayerAddress,
                             parsed.destination,
                             {NumberToString(n) : n \in parsed.lamports}, {},
                             programId)
             ELSE Determined("programInteraction", {primary.type},
                             feePayerAddress, {}, {}, {}, programId)

determineEventType(instructions, feePayerAddress) ==
  LET primaryInstruction == IF instructions = <<>> THEN {}
                            ELSE {instructions[1]}
      programId == IF primaryInstruction = {}
                      \/ The(primaryInstruction).programId = ""
                   THEN "unknown"
                   ELSE The(primaryInstruction).programId
  IN IF primaryInstruction = {} \/ The(primaryInstruction).parsed = {}
     THEN Determined("unknown", {}, feePayerAddress, {}, {}, {}, programId)
     ELSE
       LET parsed == The(The(primaryInstruction).parsed)
           program == The(primaryInstruction).type
           from == IF parsed.source # {} /\ The(parsed.source) # ""
                   THEN The(parsed.source) ELSE feePayerAddress
       IN IF program = "system"
          THEN IF parsed.type = {"transfer"}
               THEN Determined("transfer", {}, from, parsed.destination,
                               {NumberToString(n) : n \in parsed.lamports},
                               {}, programId)
               ELSE Determined("unknown", {}, feePayerAddress, {}, {}, {},
                               programId)
          ELSE IF program = "spl-token"
                    \/ Includes(programId, "TokenzQdBNbLqP")
          THEN IF parsed.type \in {{"transfer"}, {"transferChecked"}}
               THEN Determined("tokenTransfer", {}, from, parsed.destination,
                               TokenAmountOf(parsed), parsed.mint, programId)
               ELSE IF parsed.type = {"mintTo"}
               THEN Determined("tokenMint", {}, feePayerAddress, {},
                               TokenAmountOf(parsed), parsed.mint, programId)
               ELSE IF parsed.type = {"burn"}
               THEN Determined("tokenBurn", {}, feePayerAddress, {},
                               TokenAmountOf(parsed), parsed.mint, programId)
               ELSE Determined("unknown", {}, feePayerAddress, {}, {}, {},
                               programId)
          ELSE IF Includes(programId,
                           "metaqbxxU8xxxxxxxxxxxxxxxxxxxxxxxxxxxxxx")
          THEN Determined(IF parsed.type \in {{"createMetadata"},
                                              {"updateMetadata"}}
                          THEN "nftMint"
                          ELSE IF parsed.type = {"burnNFT"} THEN "nftBurn"
                          ELSE "unknown",
                          {}, feePayerAddress, {}, {}, {}, programId)
          ELSE IF program = "stake"
          THEN Determined(IF parsed.type = {"delegate"} THEN "stake"
                          ELSE IF parsed.type = {"deactivate"} THEN "unstake"
                          ELSE "unknown",
                          {}, feePayerAddress, {}, {}, {}, programId)
          ELSE IF program = "vote"
          THEN Determined("vote", {}, feePayerAddress, {}, {}, {}, programId)
          ELSE IF program # "" /\ program # "unknown"
          THEN Determined("programInteraction", {program}, feePayerAddress,
                          {}, {}, {}, programId)
          ELSE Determined("unknown", {}, feePayerAddress, {}, {}, {},
                          programId)

\* a transaction without meta is taken for one still in flight
StatusOf_PendingWithoutMeta(meta) ==
  IF meta = {} THEN "pending"
  ELSE IF The(meta).err # {} THEN "failed" ELSE "success"

\* meta?.err ? 'failed' : 'success'; a TransactionError is an object or a
\* non-empty string, so a present err is truthy
StatusOf(meta) ==
  IF meta # {} /\ The(meta).err # {} THEN "failed" ELSE "success"

\* the value of EventNormalizer.normalizeTransaction; clock is Date.now()
NormalizeTransaction(transaction, signature, clock) ==
  LET accountKeys == transaction.accountKeys
      feePayerAddress == IF accountKeys # <<>> /\ accountKeys[1] # ""
                         THEN accountKeys[1] ELSE "unknown"
      fee == IF transaction.meta = {} THEN 0 ELSE The(transaction.meta).fee
      status == StatusOf(transaction.meta)
      instructions == processInstructions(transaction.instructions)
      d == determineEventType(instructions, feePayerAddress)
      blockTime == IF transaction.blockTime = {} THEN 0
                   ELSE The(transaction.blockTime)
  IN [id |-> <<signature, "-", transaction.slot>>,
      signature |-> signature,
      timestamp |-> IF blockTime # 0 THEN blockTime * 1000 ELSE clock,
      blockTime |-> blockTime,
      blockHeight |-> {},
      slot |-> transaction.slot,
      status |-> status,
      from |-> d.from, to |-> d.to, type |-> d.type, subType |-> d.subType,
      amount |-> d.amount, mint |-> d.mint, programId |-> d.programId,
      instructions |-> instructions,
      fee |-> fee,
      feePayerAddress |-> feePayerAddress,
      raw |-> transaction,
      metadata |-> [accountCount |-> Len(accountKeys),
                    instructionCount |-> Len(instructions)]]

\* one call of the normalizer from outside; the broadcaster is not involved
normalizeTransaction(transaction, signature) ==
  /\ ret' = [op |-> "normalizeTransaction", transaction |-> transaction,
             value |-> NormalizeTransaction(transaction, signature, now)]
  /\ emitted' = <<>>
  /\ tally' = <<>>
  /\ UNCHANGED <<clients, messageQueue, queueProcessingInterval, timers, now,
                 received>>

MaxInstructions == 2

\* the instruction lists of the transactions handed in
InstructionLists ==
  UNION {[1..n -> Instructions] : n \in 0..MaxInstructions}

\* the execution outcomes a provider reports: no meta, no error, an error
Metas ==
  {{}, {[err |-> {}, fee |-> 5000]},
   {[err |-> {"InstructionError"}, fee |-> 5000]}}

Transactions ==
  [accountKeys : {<<>>, <<"A", "B">>},
   instructions : InstructionLists,
   meta : Metas,
   blockTime : {{}, {1700}},
   slot : {7}]

\* Normalizer: transactions normalized one after another.
NextNormalize ==
  \E transaction \in Transactions : normalizeTransaction(transaction, "sig")

SpecNormalize == Init /\ [][NextNormalize]_vars

\* =================================================================== claims

EnqueueOps == {"broadcast", "broadcastToClients", "broadcastToTag"}

HasEvent(es, n) == \E i \in DOMAIN es : es[i].name = n

QueueIds(q) == {q[i].id : i \in DOMAIN q}

\* C1: in every reachable state the queue holds at most maxQueueSize
\* broadcasts.
C1_QueueNeverExceedsMax == Len(messageQueue) <= maxQueueSize

\* a full queue that has just turned a broadcast away
C1_Witness ==
  /\ Len(messageQueue) = maxQueueSize
  /\ HasEvent(emitted, "broadcast:queue-full")

\* a call of an enqueue method that reaches addToQueue with targets
NonEmptyEnqueue ==
  /\ ret'.op \in EnqueueOps
  /\ ~HasEvent(emitted', "broadcast:no-targets")
  /\ ret'.op = "broadcast" => DOMAIN clients # {}

\* C2 (as claimed): an enqueue with a non-empty target set is accepted exactly
\* when the queue holds fewer than maxQueueSize broadcasts; accepted with
\* maxQueueSize - 1 queued it fills the queue; and the queue shrinks only in a
\* sweep or in clearQueue, so a full queue rejects until one of them removes
\* a broadcast.
C2_AcceptedIffRoomAndFills ==
  [][/\ NonEmptyEnqueue =>
          /\ HasEvent(emitted', "broadcast:queued")
               <=> Len(messageQueue) < maxQueueSize
          /\ Len(messageQueue) = maxQueueSize - 1
               => Len(messageQueue') = maxQueueSize
     /\ Len(messageQueue') < Len(messageQueue)
          => ret'.op \in {"processQueue", "clearQueue"}]_vars

\* C3: an enqueue that reaches addToQueue with the queue full leaves the
\* queue exactly as it was and emits one notification only, queue-full (so
\* not queued), carrying the id it returns and the type it was called with.
C3_RejectedLeavesQueueAndNotifies ==
  [][/\ Len(messageQueue) >= maxQueueSize
     /\ ret'.op \in EnqueueOps
     /\ ~HasEvent(emitted', "broadcast:no-targets")
     => /\ messageQueue' = messageQueue
        /\ emitted' = <<[name |-> "broadcast:queue-full",
                         broadcastId |-> ret'.value, type |-> ret'.type]>>]_vars

\* a rejected broadcast of the second type, the queue holding the first
C3_Witness ==
  /\ Len(messageQueue) = maxQueueSize
  /\ \A i \in DOMAIN messageQueue : messageQueue[i].type = "alert"
  /\ ret.op \in EnqueueOps
  /\ ret.type = "tx"
  /\ emitted = <<[name |-> "broadcast:queue-full",
                  broadcastId |-> ret.value, type |-> "tx"]>>

\* C4 (as claimed): a capacity-rejected enqueue returns something other than
\* a broadcast id.
C4_RejectedReturnsNoId ==
  (ret.op \in EnqueueOps /\ HasEvent(emitted, "broadcast:queue-full"))
    => ret.value \notin BroadcastIds

\* C4 (amended): every enqueue call returns a broadcast id, the rejected ones
\* too; what tells them apart is the one notification the call emits, which
\* carries the returned id: after queued the id is in the queue with
\* retryCount 0, after queue-full or no-targets the queue is as it was.
C4_IdReturnedAlwaysEventTells ==
  [][ret'.op \in EnqueueOps =>
       /\ ret'.value \in BroadcastIds
       /\ Len(emitted') = 1
       /\ emitted'[1].broadcastId = ret'.value
       /\ \/ /\ emitted'[1].name = "broadcast:queued"
             /\ \E i \in DOMAIN messageQueue' :
                  /\ messageQueue'[i].id = ret'.value
                  /\ messageQueue'[i].retryCount = 0
                  /\ messageQueue'[i].type = emitted'[1].type
          \/ /\ emitted'[1].name = "broadcast:queue-full"
             /\ Len(messageQueue) >= maxQueueSize
             /\ messageQueue' = messageQueue
          \/ /\ emitted'[1].name = "broadcast:no-targets"
             /\ messageQueue' = messageQueue]_vars

\* a rejected call whose returned id names nothing in the queue
C4_Witness ==
  /\ ret.op \in EnqueueOps
  /\ HasEvent(emitted, "broadcast:queue-full")
  /\ ret.value \in BroadcastIds
  /\ ret.value \notin QueueIds(messageQueue)

\* C5: broadcastToClients with a list holding no registered id returns a
\* broadcast id, leaves the queue as it was (so no later sweep sends
\* anything for it) and sends nothing: its only effect is the no-targets
\* notification.
C5_NoTargetsIsNoOp ==
  [][ret'.op = "broadcastToClients" =>
       \A r \in BroadcastIds, ids \in SUBSET (ClientIds \ DOMAIN clients),
          data \in QueuedPayloads :
         /\ ret'.value = generateId(r)
         /\ broadcastToClients(r, ids, ret'.type, data)
         => /\ ret'.value \in BroadcastIds
            /\ messageQueue' = messageQueue
            /\ clients' = clients
            /\ tally' = <<>>
            /\ emitted' = <<[name |-> "broadcast:no-targets",
                             broadcastId |-> ret'.value,
                             type |-> ret'.type]>>]_vars

\* the call was made with a client registered, a broadcast queued, and a list
\* naming only an unregistered id
C5_Witness ==
  /\ ret.op = "broadcastToClients"
  /\ HasEvent(emitted, "broadcast:no-targets")
  /\ DOMAIN clients # {}
  /\ DOMAIN clients # ClientIds
  /\ messageQueue # <<>>

\* the entry with key id was put there by the step just taken
PlacedNow(id) ==
  /\ ret'.op \in EnqueueOps
  /\ HasEvent(emitted', "broadcast:queued")
  /\ ret'.value = id

\* C6: the target set of a queued broadcast is fixed: no step changes the
\* target set of a broadcast that stays queued (an entry stored by the step
\* itself is a new broadcast), and a broadcast is stored with targets that
\* are all registered at that moment.
C6_TargetsFixedAtEnqueue ==
  [][/\ \A i \in DOMAIN messageQueue, j \in DOMAIN messageQueue' :
          (messageQueue[i].id = messageQueue'[j].id
             /\ ~PlacedNow(messageQueue[i].id))
          => messageQueue'[j].targetClients = messageQueue[i].targetClients
     /\ \A j \in DOMAIN messageQueue' :
          PlacedNow(messageQueue'[j].id)
          => messageQueue'[j].targetClients \subseteq DOMAIN clients]_vars

\* a sweep has left queued a broadcast one of whose targets has left, while
\* a client carrying a tag is registered
C6_Witness ==
  /\ ret.op = "processQueue"
  /\ \E i \in DOMAIN messageQueue :
       /\ messageQueue[i].retryCount > 0
       /\ ~(messageQueue[i].targetClients \subseteq DOMAIN clients)
       /\ Cardinality(messageQueue[i].targetClients) = 2
  /\ \E c \in DOMAIN clients : clients[c].tags # {}

Attempted(t) == {p[1] : p \in t.results}

WithOutcome(t, o) == {p[1] : p \in {q \in t.results : q[2] = o}}

EventsFor(n, id) ==
  {k \in DOMAIN emitted : emitted[k].name = n /\ emitted[k].broadcastId = id}

C8_UnregisteredNotCounted ==
  \A i \in DOMAIN tally :
    LET t == tally[i]
        bad == WithOutcome(t, "closed") \cup WithOutcome(t, "error")
    IN /\ t.failedCount = Cardinality(bad)
       /\ bad = {} => EventsFor("broadcast:completed", t.broadcast.id) # {}

\* C8 (amended): a target that was unregistered before the sweep counts as a
\* failure like a closed or erroring sink, though no notification names it:
\* the failure count is the number of targets not sent to, and a broadcast
\* with an unregistered target is not completed by the sweep but has its
\* retryCount incremented (and is dropped as max-retries-exceeded when that
\* reaches maxRetries).
C8_UnregisteredCountsAsFailure ==
  \A i \in DOMAIN tally :
    LET t == tally[i]
        b == t.broadcast
        gone == WithOutcome(t, "unknown")
    IN /\ t.failedCount = Cardinality(b.targetClients \ WithOutcome(t, "sent"))
       /\ gone = b.targetClients \ DOMAIN clients
       /\ \A k \in DOMAIN emitted :
            emitted[k].name \in {"message:sent", "message:error"}
            => emitted[k].clientId \notin gone
       /\ gone # {} =>
            /\ t.failedCount > 0
            /\ EventsFor("broadcast:completed", b.id) = {}
            /\ IF b.retryCount + 1 >= maxRetries
                 THEN /\ EventsFor("broadcast:max-retries-exceeded", b.id) # {}
                      /\ b.id \notin QueueIds(messageQueue)
                 ELSE \E j \in DOMAIN messageQueue :
                        /\ messageQueue[j].id = b.id
                        /\ messageQueue[j].retryCount = b.retryCount + 1

\* a sweep in which the only target not sent to had been unregistered, and
\* the broadcast stays queued for a retry
C8_Witness ==
  \E i \in DOMAIN tally :
    /\ WithOutcome(tally[i], "unknown") # {}
    /\ WithOutcome(tally[i], "sent") # {}
    /\ WithOutcome(tally[i], "closed") \cup WithOutcome(tally[i], "error") = {}
    /\ tally[i].broadcast.id \in QueueIds(messageQueue)

\* C9: in a sweep every queued broadcast is attempted, in queue order, and
\* every target of each is attempted whatever became of the others; a target
\* unknown to the registry or with a socket that is not open is a failed
\* send, and sent and failed sends add up to the targets.
C9_SweepAttemptsAllCountsFailures ==
  [][ret'.op = "processQueue" =>
       /\ Len(tally') = Len(messageQueue)
       /\ \A i \in DOMAIN tally' :
            LET t == tally'[i]
                b == t.broadcast
                closed == {c \in b.targetClients \cap DOMAIN clients :
                             clients[c].ws.readyState # "OPEN"}
            IN /\ b = messageQueue[i]
               /\ Attempted(t) = b.targetClients
               /\ WithOutcome(t, "unknown") = b.targetClients \ DOMAIN clients
               /\ WithOutcome(t, "closed") = closed
               /\ t.sentCount = Cardinality(WithOutcome(t, "sent"))
               /\ t.sentCount + t.failedCount = Cardinality(b.targetClients)
               /\ t.failedCount >=
                    Cardinality(closed \cup (b.targetClients \ DOMAIN clients))]_vars

\* a sweep over two broadcasts: the first met an unknown id or a closed
\* socket and still reached another target, and the second was sent too
C9_Witness ==
  /\ Len(tally) = 2
  /\ WithOutcome(tally[1], "sent") # {}
  /\ WithOutcome(tally[1], "unknown") \cup WithOutcome(tally[1], "closed") # {}
  /\ WithOutcome(tally[2], "sent") # {}

\* C10: a broadcast all of whose sends in a sweep succeeded is gone from the
\* queue after the sweep, with exactly one completed notification whose
\* sentCount is the number of its targets; a broadcast with a failed send
\* gets no completed notification.
C10_CompletedIffNoFailure ==
  \A i \in DOMAIN tally :
    LET t == tally[i]
        b == t.broadcast
        done == EventsFor("broadcast:completed", b.id)
    IN IF WithOutcome(t, "sent") = b.targetClients
         THEN /\ b.id \notin QueueIds(messageQueue)
              /\ Cardinality(done) = 1
              /\ \A k \in done :
                   /\ emitted[k].sentCount = Cardinality(b.targetClients)
                   /\ emitted[k].type = b.type
         ELSE done = {}

\* one sweep completed a broadcast with two targets and left another, which
\* had a failed send, without a completed notification
C10_Witness ==
  /\ Len(tally) = 2
  /\ \E i \in DOMAIN tally :
       /\ Cardinality(tally[i].broadcast.targetClients) = 2
       /\ WithOutcome(tally[i], "sent") = tally[i].broadcast.targetClients
  /\ \E i \in DOMAIN tally :
       /\ WithOutcome(tally[i], "sent") # {}
       /\ WithOutcome(tally[i], "sent") # tally[i].broadcast.targetClients

\* C11: a broadcast with at least one failed send in a sweep has its
\* retryCount advanced by exactly one, however many sends failed; if that
\* reaches maxRetries the broadcast is out of the queue after the sweep and
\* one max-retries-exceeded notification carries the sweep's failure count;
\* otherwise it stays queued, nothing but retryCount changed.
C11_FailureAdvancesRetryByOne ==
  \A i \in DOMAIN tally :
    LET t == tally[i]
        b == t.broadcast
        failed == b.targetClients \ WithOutcome(t, "sent")
        dropped == EventsFor("broadcast:max-retries-exceeded", b.id)
    IN failed # {} =>
         IF b.retryCount + 1 >= maxRetries
           THEN /\ b.id \notin QueueIds(messageQueue)
                /\ Cardinality(dropped) = 1
                /\ \A k \in dropped :
                     /\ emitted[k].failedCount = Cardinality(failed)
                     /\ emitted[k].type = b.type
           ELSE /\ dropped = {}
                /\ \E j \in DOMAIN messageQueue :
                     messageQueue[j] = [b EXCEPT !.retryCount = b.retryCount + 1]

\* one sweep in which both targets of a fresh broadcast failed and it stays
\* queued with retryCount 1, and a broadcast on its last retry was dropped
C11_Witness ==
  /\ Len(tally) = 2
  /\ \E i \in DOMAIN tally :
       /\ tally[i].failedCount = 2
       /\ tally[i].broadcast.retryCount = 0
       /\ \E j \in DOMAIN messageQueue :
            /\ messageQueue[j].id = tally[i].broadcast.id
            /\ messageQueue[j].retryCount = 1
  /\ \E i \in DOMAIN tally :
       /\ tally[i].broadcast.retryCount = maxRetries - 1
       /\ HasEvent(emitted, "broadcast:max-retries-exceeded")
       /\ tally[i].broadcast.id \notin QueueIds(messageQueue)

\* the registered clients whose socket is not open
ClosedClients == {c \in DOMAIN clients : clients[c].ws.readyState # "OPEN"}

\* C12: with three registered clients of which one has a socket that is
\* never open, a broadcast to all of them is sent again to both others in
\* every sweep: after the k-th sweep each of them has been handed k copies
\* and the failing client none, and the maxRetries-th sweep takes the
\* broadcast out of the queue.
C12_DuplicateDelivery ==
  (/\ ret.op = "processQueue"
   /\ tally # <<>>
   /\ DOMAIN clients = TrioIds
   /\ Cardinality(ClosedClients) = 1)
  => LET k == tally[1].broadcast.retryCount + 1
     IN /\ \A f \in ClosedClients : Received(f) = 0
        /\ \A o \in TrioIds \ ClosedClients : Received(o) = k
        /\ IF k >= maxRetries
             THEN messageQueue = <<>>
             ELSE /\ Len(messageQueue) = 1
                  /\ messageQueue[1].retryCount = k
                  /\ messageQueue[1].targetClients = TrioIds

\* the broadcast has been dropped after maxRetries sweeps, two clients
\* having been handed maxRetries copies each and the third none
C12_Witness ==
  /\ ret.op = "processQueue"
  /\ messageQueue = <<>>
  /\ HasEvent(emitted, "broadcast:max-retries-exceeded")
  /\ DOMAIN clients = TrioIds
  /\ Cardinality(ClosedClients) = 1
  /\ \A f \in ClosedClients : Received(f) = 0
  /\ \A o \in TrioIds \ ClosedClients : Received(o) = maxRetries

\* C13: a sweep takes every queued broadcast out of the queue or advances
\* its retryCount by one to a value below maxRetries, so no broadcast is
\* swept more than maxRetries times; and while the timer is set every
\* queued broadcast eventually leaves the queue.
C13_BoundedRetry ==
  /\ [][ret'.op = "processQueue" =>
          \A i \in DOMAIN messageQueue :
             \/ messageQueue[i].id \notin QueueIds(messageQueue')
             \/ \E j \in DOMAIN messageQueue' :
                  /\ messageQueue'[j].id = messageQueue[i].id
                  /\ messageQueue'[j].retryCount = messageQueue[i].retryCount + 1
                  /\ messageQueue'[j].retryCount < maxRetries]_vars
  /\ \A id \in DeliveryIds :
       (timers > 0 /\ id \in QueueIds(messageQueue))
         ~> (id \notin QueueIds(messageQueue))

\* a broadcast whose targets never took it went out of the queue on its
\* last retry, the timer set
C13_Witness ==
  /\ timers > 0
  /\ ret.op = "processQueue"
  /\ \E i \in DOMAIN tally :
       /\ tally[i].broadcast.retryCount = maxRetries - 1
       /\ WithOutcome(tally[i], "sent") = {}
       /\ tally[i].broadcast.targetClients # {}
       /\ tally[i].broadcast.id \notin QueueIds(messageQueue)

\* C14: startQueueProcessing with the loop running and stopQueueProcessing
\* with the loop not running change nothing and emit nothing; a start of a
\* stopped loop sets one timer and a stop of a running loop clears it, each
\* with its notification; never more than one timer is set, and a sweep
\* runs only between a start and the next stop.
C14_LoopLifecycle ==
  [][/\ ret'.op = "startQueueProcessing" =>
          IF queueProcessingInterval
            THEN /\ emitted' = <<>>
                 /\ UNCHANGED <<clients, messageQueue, queueProcessingInterval,
                                timers>>
            ELSE /\ emitted' = <<[name |-> "queue:processing-started"]>>
                 /\ queueProcessingInterval'
                 /\ timers' = 1
     /\ ret'.op = "stopQueueProcessing" =>
          IF queueProcessingInterval
            THEN /\ emitted' = <<[name |-> "queue:processing-stopped"]>>
                 /\ ~queueProcessingInterval'
                 /\ timers' = 0
            ELSE /\ emitted' = <<>>
                 /\ UNCHANGED <<clients, messageQueue, queueProcessingInterval,
                                timers>>
     /\ timers' <= 1
     /\ queueProcessingInterval' <=> timers' = 1
     /\ ret'.op = "processQueue" => queueProcessingInterval /\ timers = 1]_vars

\* the loop was started, swept a broadcast that failed, was stopped, and is
\* stopped once more: nothing is emitted and the broadcast is still queued
C14_Witness ==
  /\ ret.op = "stopQueueProcessing"
  /\ emitted = <<>>
  /\ timers = 0
  /\ \E i \in DOMAIN messageQueue : messageQueue[i].retryCount > 0

C18_DirectSendBypassesQueue ==
  [][/\ ret'.op = "sendToClient" =>
          /\ UNCHANGED <<messageQueue, queueProcessingInterval, timers>>
          /\ Len(emitted') <= 1
          /\ \A c \in ClientIds :
               (/\ Has(clients, c)
                /\ clients[c].ws.readyState = "OPEN"
                /\ sendToClient(c, "tx", "plain", FALSE))
               => ret'.value = TRUE
     /\ ret'.op = "processQueue" =>
          \A k \in DOMAIN emitted' : emitted'[k].type # "tx"]_vars

\* a direct send succeeded with the queue full, one of the queued
\* broadcasts having been swept before
C18_Witness ==
  /\ ret.op = "sendToClient"
  /\ ret.value = TRUE
  /\ Len(messageQueue) = maxQueueSize
  /\ \E i \in DOMAIN messageQueue : messageQueue[i].retryCount > 0

\* C15: unregisterClient of a registered id returns true, emits the
\* disconnect notification and leaves getClient(id) absent and the id out of
\* getClientIds(); unregisterClient of an id that is not registered (never
\* registered, or unregistered before) returns false, emits nothing and
\* leaves the registry as it was.
C15_UnregisterOnceThenFalse ==
  [][ret'.op = "unregisterClient" =>
       \A id \in ClientIds :
          unregisterClient(id) =>
            IF Has(clients, id)
              THEN /\ ret'.value = TRUE
                   /\ getClient(clients', id) = {}
                   /\ id \notin getClientIds(clients')
                   /\ getClientIds(clients') = getClientIds(clients) \ {id}
                   /\ \A o \in getClientIds(clients') : clients'[o] = clients[o]
                   /\ emitted' = <<[name |-> "client:disconnected", clientId |-> id]>>
              ELSE /\ ret'.value = FALSE
                   /\ emitted' = <<>>
                   /\ clients' = clients]_vars

\* an unregisterClient returned false and emitted nothing while another
\* client, which has been sent a message, stays registered
C15_Witness ==
  /\ ret.op = "unregisterClient"
  /\ ret.value = FALSE
  /\ emitted = <<>>
  /\ Cardinality(DOMAIN clients) = 1
  /\ \E c \in DOMAIN clients : clients[c].lastMessageAt # {}

\* C16: registerClient of an id that is already registered leaves
\* getClientIds() and the client count as they were, puts the new socket and
\* the new tag set in place of the old ones, sets joinedAt to the time of the
\* call, leaves lastMessageAt unset, touches no other client and emits the
\* connect notification.
C16_RegisterIdempotentById ==
  [][ret'.op = "registerClient" =>
       \A id \in ClientIds, rs \in {"OPEN", "CLOSED"}, tags \in SUBSET Tags :
          (Has(clients, id) /\ registerClient(id, rs, tags)) =>
            /\ getClientIds(clients') = getClientIds(clients)
            /\ getClientCount(clients') = getClientCount(clients)
            /\ getClient(clients', id) = {[readyState |-> rs]}
            /\ clients'[id].tags = tags
            /\ clients'[id].joinedAt = now
            /\ clients'[id].lastMessageAt = {}
            /\ \A o \in getClientIds(clients) \ {id} : clients'[o] = clients[o]
            /\ emitted' = <<[name |-> "client:connected", clientId |-> id]>>
            /\ ret'.known]_vars

\* an id that was registered is registered again, later, with no tags, and
\* has no lastMessageAt, beside a client that keeps its tag and its
\* lastMessageAt
C16_Witness ==
  /\ ret.op = "registerClient"
  /\ ret.known
  /\ DOMAIN clients = ClientIds
  /\ \E c \in ClientIds :
       /\ emitted = <<[name |-> "client:connected", clientId |-> c]>>
       /\ clients[c].joinedAt = now
       /\ now > 0
       /\ clients[c].tags = {}
       /\ clients[c].lastMessageAt = {}
       /\ \A o \in ClientIds \ {c} :
            /\ clients[o].tags # {}
            /\ clients[o].lastMessageAt # {}
            /\ clients[o].joinedAt < now

\* C19: closeAll calls close() on every registered client whose socket is
\* open, a close() that raises is reported as a close-error notification and
\* stops nothing, and afterwards the registry is empty, no timer is set and
\* the closed notification is the last one emitted.
C19_CloseAllClosesEveryOpenSocket ==
  [][ret'.op = "closeAll" =>
       /\ ret'.closeCalled = OpenClients
       /\ clients' = <<>>
       /\ getClientCount(clients') = 0
       /\ ~queueProcessingInterval'
       /\ timers' = 0
       /\ emitted'[Len(emitted')] = [name |-> "broadcaster:closed"]
       /\ HasEvent(emitted', "queue:processing-stopped") <=> queueProcessingInterval
       /\ \A closeThrows \in SUBSET OpenClients :
            closeAll(closeThrows) =>
              /\ {emitted'[k].clientId :
                    k \in {j \in DOMAIN emitted' :
                             emitted'[j].name = "client:close-error"}} = closeThrows
              /\ Len(emitted') = Cardinality(closeThrows) + 1
                                   + (IF queueProcessingInterval THEN 1 ELSE 0)]_vars

\* closeAll has called close() on two open sockets, one of which raised,
\* and stopped the running loop
C19_Witness ==
  /\ ret.op = "closeAll"
  /\ Cardinality(ret.closeCalled) = 2
  /\ Len(emitted) = 3
  /\ emitted[1].name = "client:close-error"
  /\ emitted[2].name = "queue:processing-stopped"
  /\ clients = <<>>
  /\ timers = 0

\* C20: broadcastToTag queues a broadcast whose targets are exactly the
\* registered clients carrying the tag at the call, and queues nothing when
\* no client carries it; addClientTag and removeClientTag change no queued
\* broadcast, and a sweep sends a broadcast to its targets whatever tags the
\* clients carry by then.
C20_TagResolvedAtEnqueue ==
  [][/\ ret'.op = "broadcastToTag" =>
          \A r \in DeliveryIds, tag \in Tags, data \in QueuedPayloads :
             (ret'.value = generateId(r) /\ broadcastToTag(r, tag, "alert", data)) =>
               LET holders == getClientsByTag(clients, tag)
               IN IF holders = {}
                    THEN /\ messageQueue' = messageQueue
                         /\ emitted' = <<[name |-> "broadcast:no-targets",
                                          broadcastId |-> ret'.value,
                                          type |-> "alert"]>>
                  ELSE IF Len(messageQueue) >= maxQueueSize
                    THEN messageQueue' = messageQueue
                  ELSE /\ HasEvent(emitted', "broadcast:queued")
                       /\ \E j \in DOMAIN messageQueue' :
                            /\ messageQueue'[j].id = ret'.value
                            /\ messageQueue'[j].targetClients = holders
     /\ ret'.op \in {"addClientTag", "removeClientTag"} =>
          messageQueue' = messageQueue
     /\ ret'.op = "processQueue" =>
          \A i \in DOMAIN tally' :
             /\ tally'[i].broadcast = messageQueue[i]
             /\ WithOutcome(tally'[i], "sent") = messageQueue[i].targetClients]_vars

\* a sweep has sent a broadcast by tag to a client that has lost the tag
\* since, and not to a client that has gained it since
C20_Witness ==
  /\ ret.op = "processQueue"
  /\ \E i \in DOMAIN tally :
       /\ \E c \in WithOutcome(tally[i], "sent") : clients[c].tags = {}
       /\ \E d \in DOMAIN clients \ Attempted(tally[i]) : clients[d].tags # {}

\* C21: an accepted enqueue is given an id that no queued broadcast has, so
\* it replaces no queued broadcast and makes the queue one longer.
C21_AcceptedIdIsFresh ==
  [][(ret'.op \in EnqueueOps /\ HasEvent(emitted', "broadcast:queued")) =>
       /\ ret'.value \notin QueueIds(messageQueue)
       /\ Len(messageQueue') = Len(messageQueue) + 1
       /\ \A i \in DOMAIN messageQueue : messageQueue'[i] = messageQueue[i]]_vars

\* C22: a send that succeeds, direct or in a sweep, sets the client's
\* lastMessageAt to the time of the send, and a send that fails leaves the
\* client as it was; no send touches another client.
C22_LastMessageAtFollowsSuccess ==
  [][/\ ret'.op = "sendToClient" =>
          IF ret'.value
            THEN \E c \in DOMAIN clients :
                   /\ emitted' = <<[name |-> "message:sent", clientId |-> c,
                                    type |-> "tx"]>>
                   /\ clients' = [clients EXCEPT ![c].lastMessageAt = {now}]
            ELSE clients' = clients
     /\ ret'.op = "processQueue" =>
          /\ DOMAIN clients' = DOMAIN clients
          /\ \A c \in DOMAIN clients :
               IF \E i \in DOMAIN tally' : <<c, "sent">> \in tally'[i].results
                 THEN clients'[c] = [clients[c] EXCEPT !.lastMessageAt = {now}]
                 ELSE clients'[c] = clients[c]]_vars

\* a sweep has sent to one client, whose lastMessageAt is the time of the
\* sweep, and failed for another whose send raised and whose lastMessageAt
\* is still that of an earlier send
C22_Witness ==
  /\ ret.op = "processQueue"
  /\ now > 0
  /\ \E i \in DOMAIN tally, c, d \in DOMAIN clients :
       /\ <<c, "sent">> \in tally[i].results
       /\ clients[c].lastMessageAt = {now}
       /\ clients[c].joinedAt < now
       /\ <<d, "error">> \in tally[i].results
       /\ clients[d].lastMessageAt # {}
       /\ clients[d].lastMessageAt # {now}
\* the names of the factors a score reports
FactorNames(score) == {score.factors[i].name : i \in DOMAIN score.factors}

\* two scores kept as fractions are the same number
SameScore(x, y) == x.num * y.den = y.num * x.den

\* C23: scoring an event with amount 0, program id "unknown" and event type
\* "flash_loan" combines the three factors (weights 0.3, 0.35, 0.35) to a
\* score of at least 0.7, and the level is HIGH or CRITICAL.
C23_ZeroUnknownFlashLoanIsHigh ==
  (/\ ret.op = "evaluateEvent"
   /\ ret.eventData = [amount |-> {0}, programId |-> {"unknown"},
                       eventType |-> "flash_loan"]) =>
    /\ Len(ret.value.factors) = 3
    /\ \A i \in 1..3 :
         ret.value.factors[i].weight = <<30, 35, 35>>[i]
    /\ ~ScoreBelow(ret.value.score, 70)
    /\ ret.value.level \in {"HIGH", "CRITICAL"}

\* C24: when the event has no amount, no amount factor is reported, the score
\* is the weighted mean of the program and event-type factors alone, and it
\* differs from the score of the same event with amount 0.
C24_AbsentAmountIsExcluded ==
  (ret.op = "evaluateEvent" /\ ret.eventData.amount = {}) =>
    LET others == SetToSeq(evaluateProgram(ProgramIdOrEmpty(ret.eventData)))
                    \o SetToSeq(evaluateEventType(ret.eventData.eventType))
        withZero == EvaluateEvent([ret.eventData EXCEPT !.amount = {0}])
    IN /\ "Amount Risk" \notin FactorNames(ret.value)
       /\ ret.value.factors = others
       /\ SameScore(ret.value.score,
                    [num |-> SumWeighted(others), den |-> SumWeight(others)])
       /\ ~SameScore(ret.value.score, withZero.score)

\* the first instruction handed in carries no payload the normalizer reads
FirstNotParsed(transaction) ==
  \/ transaction.instructions = <<>>
  \/ transaction.instructions[1].parsed = {}
  \/ ~The(transaction.instructions[1].parsed).truthy

\* C25: a transaction without instructions, or whose first instruction is
\* not a parsed one, is normalized to type unknown with from the fee payer
\* and without to, amount or mint, whatever the later instructions are.
C25_UnparsedFirstIsUnknown ==
  (ret.op = "normalizeTransaction" /\ FirstNotParsed(ret.transaction)) =>
    /\ ret.value.type = "unknown"
    /\ ret.value.from = ret.value.feePayerAddress
    /\ ret.value.feePayerAddress =
         IF ret.transaction.accountKeys = <<>> THEN "unknown"
         ELSE ret.transaction.accountKeys[1]
    /\ ret.value.to = {}
    /\ ret.value.amount = {}
    /\ ret.value.mint = {}

\* an undecoded first instruction followed by a system transfer from B
C25_Witness ==
  /\ ret.op = "normalizeTransaction"
  /\ Len(ret.transaction.instructions) = 2
  /\ ret.transaction.instructions[1].parsed = {}
  /\ ret.transaction.instructions[2] =
       Parsed(SystemProgramId, "system",
              Payload(TRUE, {"transfer"}, {"A"}, {"B"}, {5000000}, {}, {}))
  /\ ret.transaction.accountKeys = <<"A", "B">>
  /\ ret.value.type = "unknown"
  /\ ret.value.from = "A"
  /\ ret.value.to = {}

\* C26: the status of a normalized event is one of success, failed and
\* pending; it is failed exactly when the transaction's meta reports an
\* error, and success when there is no meta or no error.
C26_FailedIffMetaReportsError ==
  ret.op = "normalizeTransaction" =>
    LET meta == ret.transaction.meta
        reportsError == meta # {} /\ The(meta).err # {}
    IN /\ ret.value.status \in {"success", "failed", "pending"}
       /\ ret.value.status = "failed" <=> reportsError
       /\ ~reportsError => ret.value.status = "success"

\* a failed system transfer: the error decides the status, not the type
C26_Witness ==
  /\ ret.op = "normalizeTransaction"
  /\ ret.transaction.meta = {[err |-> {"InstructionError"}, fee |-> 5000]}
  /\ ret.value.status = "failed"
  /\ ret.value.type = "transfer"
  /\ ret.value.amount = {"5000000"}

\* C27: between sweeps every queued broadcast has 0 <= retryCount <
\* maxRetries, and retryCount counts the sweeps that attempted the broadcast:
\* it is 0 when the broadcast is stored, a sweep attempts every queued
\* broadcast and leaves in the queue only broadcasts that had a failed send,
\* each with retryCount one higher, and no other step changes it.
C27_RetryCountCountsSweeps ==
  [][/\ \A j \in DOMAIN messageQueue' :
          /\ 0 <= messageQueue'[j].retryCount
          /\ messageQueue'[j].retryCount < maxRetries
     /\ ret'.op = "processQueue" =>
          \A i \in DOMAIN messageQueue :
            \E k \in DOMAIN tally' : tally'[k].broadcast = messageQueue[i]
     /\ \A j \in DOMAIN messageQueue' :
          LET b == messageQueue'[j]
          IN IF PlacedNow(b.id)
               THEN b.retryCount = 0
               ELSE \E i \in DOMAIN messageQueue :
                      /\ messageQueue[i].id = b.id
                      /\ IF ret'.op = "processQueue"
                           THEN /\ b.retryCount = messageQueue[i].retryCount + 1
                                /\ \E k \in DOMAIN tally' :
                                     /\ tally'[k].broadcast = messageQueue[i]
                                     /\ tally'[k].failedCount > 0
                           ELSE b.retryCount = messageQueue[i].retryCount]_vars

\* after a sweep a broadcast is on its last retry, one failure from the drop
C27_Witness ==
  /\ ret.op = "processQueue"
  /\ \E j \in DOMAIN messageQueue, k \in DOMAIN tally :
       /\ messageQueue[j].retryCount = maxRetries - 1
       /\ tally[k].broadcast.id = messageQueue[j].id
       /\ tally[k].broadcast.retryCount = maxRetries - 2
       /\ tally[k].failedCount > 0
       /\ tally[k].sentCount > 0

\* the terminal notifications for broadcast id among the events es
Terminal(es, id) ==
  {k \in DOMAIN es :
     /\ es[k].name \in {"broadcast:completed", "broadcast:max-retries-exceeded"}
     /\ es[k].broadcastId = id}

\* C28: a broadcast gets at most one terminal notification, completed or
\* max-retries-exceeded, and nothing is sent for it afterwards: sends are
\* made only in a sweep and only for broadcasts then queued, each once; the
\* sweep notifies a broadcast at most once, exactly when it takes it out of
\* the queue; no other step notifies, and clearQueue empties the queue
\* without a terminal notification.
C28_OneTerminalNotification ==
  [][/\ ret'.op = "processQueue" =>
          /\ Len(tally') = Len(messageQueue)
          /\ \A i \in DOMAIN messageQueue :
               LET b == messageQueue[i]
               IN /\ tally'[i].broadcast = b
                  /\ Cardinality(Terminal(emitted', b.id)) <= 1
                  /\ Terminal(emitted', b.id) # {} <=>
                       b.id \notin QueueIds(messageQueue')
          /\ QueueIds(messageQueue') \subseteq QueueIds(messageQueue)
          /\ \A k \in DOMAIN emitted' :
               emitted'[k].name \in {"broadcast:completed",
                                      "broadcast:max-retries-exceeded"} =>
                 emitted'[k].broadcastId \in QueueIds(messageQueue)
     /\ ret'.op # "processQueue" =>
          /\ tally' = <<>>
          /\ ~HasEvent(emitted', "broadcast:completed")
          /\ ~HasEvent(emitted', "broadcast:max-retries-exceeded")
     /\ ret'.op = "clearQueue" => messageQueue' = <<>>]_vars

\* one sweep ended two broadcasts, one completed and one given up, and both
\* are out of the queue
C28_Witness ==
  /\ ret.op = "processQueue"
  /\ \E k, l \in DOMAIN emitted :
       /\ emitted[k].name = "broadcast:completed"
       /\ emitted[l].name = "broadcast:max-retries-exceeded"
       /\ emitted[k].broadcastId # emitted[l].broadcastId
       /\ Terminal(emitted, emitted[k].broadcastId) = {k}
       /\ Terminal(emitted, emitted[l].broadcastId) = {l}
       /\ emitted[k].broadcastId \notin QueueIds(messageQueue)
       /\ emitted[l].broadcastId \notin QueueIds(messageQueue)

\* C29: closeAll leaves the queue as it is, every broadcast with its
\* retryCount and targets, and stops the loop; the queue still counts
\* against maxQueueSize, and the broadcasts queued at closeAll stay queued
\* until the loop is started again or clearQueue is called.
C29_CloseAllKeepsQueue ==
  [][/\ ret'.op = "closeAll" =>
          /\ messageQueue' = messageQueue
          /\ ~queueProcessingInterval'
          /\ timers' = 0
     /\ (ret.op = "closeAll"
           /\ ret'.op \notin {"startQueueProcessing", "clearQueue"}) =>
          /\ \A i \in DOMAIN messageQueue :
               \E j \in DOMAIN messageQueue' : messageQueue'[j] = messageQueue[i]
          /\ (ret'.op \in EnqueueOps /\ Len(messageQueue) >= maxQueueSize) =>
               HasEvent(emitted', "broadcast:queue-full")]_vars

\* C30: broadcast called while no client is registered queues a broadcast
\* with an empty target set, or is rejected when the queue is full, where
\* broadcastToClients queues nothing and reports no targets; a sweep makes
\* no send for a broadcast with an empty target set and takes it out of the
\* queue with one completed notification whose sentCount is 0.
C30_EmptyBroadcastIsQueued ==
  [][/\ (ret'.op = "broadcast" /\ DOMAIN clients = {}) =>
          IF Len(messageQueue) >= maxQueueSize
            THEN /\ HasEvent(emitted', "broadcast:queue-full")
                 /\ messageQueue' = messageQueue
            ELSE /\ HasEvent(emitted', "broadcast:queued")
                 /\ ~HasEvent(emitted', "broadcast:no-targets")
                 /\ messageQueue' # <<>>
                 /\ \E j \in DOMAIN messageQueue' :
                      /\ messageQueue'[j].id = ret'.value
                      /\ messageQueue'[j].targetClients = {}
                      /\ messageQueue'[j].retryCount = 0
     /\ (ret'.op = "broadcastToClients" /\ DOMAIN clients = {}) =>
          /\ HasEvent(emitted', "broadcast:no-targets")
          /\ messageQueue' = messageQueue
     /\ ret'.op = "processQueue" =>
          \A i \in DOMAIN messageQueue :
            messageQueue[i].targetClients = {} =>
              LET id == messageQueue[i].id
              IN /\ tally'[i].broadcast = messageQueue[i]
                 /\ tally'[i].results = {}
                 /\ tally'[i].sentCount = 0
                 /\ id \notin QueueIds(messageQueue')
                 /\ \E k \in DOMAIN emitted' :
                      /\ Terminal(emitted', id) = {k}
                      /\ emitted'[k].name = "broadcast:completed"
                      /\ emitted'[k].sentCount = 0]_vars

\* a sweep with a client registered by then has completed a broadcast that
\* was queued for nobody, with no send
C30_Witness ==
  /\ ret.op = "processQueue"
  /\ DOMAIN clients # {}
  /\ \E i \in DOMAIN tally, k \in DOMAIN emitted :
       /\ tally[i].broadcast.targetClients = {}
       /\ tally[i].results = {}
       /\ emitted[k] = [name |-> "broadcast:completed",
                        broadcastId |-> tally[i].broadcast.id,
                        type |-> tally[i].broadcast.type, sentCount |-> 0]
       /\ tally[i].broadcast.id \notin QueueIds(messageQueue)

====
